---- MODULE Spec2Model ----
(***************************************************************************)
(* Verification model of the freva-nextgen databrowser REST service.       *)
(*                                                                         *)
(* Part I  (SpecUserData): the user-data ingestion pipeline of             *)
(*   freva_rest/databrowser_api/core.py (class Solr): add, delete and      *)
(*   search against the search index and the document store.               *)
(* Part II (SpecStream): the cursor-mark paginated search stream.          *)
(* Part III (SpecWorker): the data-loading worker of                       *)
(*   freva_data_portal/load_data.py and the load-status records it keeps   *)
(*   in the cache.                                                         *)
(* Part IV (SpecLoad): the load response of Solr.zarr_response, which      *)
(*   publishes one job per uri and streams the chunk-store URLs.           *)
(* Part V (SpecAuth): the lazily initialized OIDC validator of             *)
(*   freva_rest/auth.py (class SafeAuth).                                  *)
(* Part VI (SpecIntake): the intake-catalogue export: the route handler    *)
(*   and the generators Solr.intake_catalogue and Solr._iterintake.        *)
(*                                                                         *)
(* Strings are sequences of atoms.  An atom is one character ("/", ":",    *)
(* " ", "\\", "*", ...) or one word of letters ("bob", "AND", ...), so     *)
(* that escaping, lower-casing and the backend's query parser work on the  *)
(* text the code really composes.                                          *)
(***************************************************************************)
EXTENDS Integers, Sequences, FiniteSets, TLC

VARIABLES
    solr,        \* the index: core name -> sequence of documents
    mongo,       \* the document store collection user_data: set of documents
    req,         \* slot -> state of the HTTP request running in that slot
    nops,        \* number of add/delete requests accepted so far
    nfail,       \* number of backend failures injected so far
    log,         \* kinds of messages logged so far
    last,        \* what the last step wrote, removed or returned
    history,     \* summaries of the last two requests that finished
    corpus,      \* Part II: the population of the searched core
    stream,      \* Part II: the state of one _solr_page_response generator
    cache,       \* Part III: the key-value cache: uuid -> entry or Nothing
    queue,       \* Part III: the messages of the broker queue, and their count
    worker,      \* Part III: worker -> position in rabbit_mq_callback
    load,        \* Part IV: the load request whose response is streamed
    bus,         \* Part IV: the messages published to the data-portal channel
    served,      \* Part IV: the chunk-store URLs streamed so far, per uri
    auth,        \* Part V: the SafeAuth object: validator, lock, counters
    areq,        \* Part V: slot -> the protected request running in it
    export,      \* Part VI: the intake-catalogue export and what it streams
    compiled,    \* Part VII: the facets of a search and their filter query
    embedded,    \* Part VIII: a value and the backend query it was embedded into
    translated,  \* Part IX: a facet name translated forwards and backwards
    vreq,        \* Part X: a search request on its way through validate_parameters
    tsel,        \* Part XI: a time query, its filter and the record it is applied to
    chunk,       \* Part XII: a chunk request and the buffer get_data_chunk returned
    stats,       \* Part XIII: searches, their statistics tasks and the search_queries collection
    shard,       \* Part XIV: the cores of the index and the last user-data write
    legacy       \* Part XV: the offset-paginated stream of the legacy search

udVars == <<solr, mongo, req, nops, nfail, log, last, history>>
wkVars == <<cache, queue, worker>>
ldVars == <<load, bus, served>>
auVars == <<auth, areq>>
inVars == <<export>>
fqVars == <<compiled>>
esVars == <<embedded>>
trVars == <<translated>>
vrVars == <<vreq>>
tsVars == <<tsel>>
ckVars == <<chunk>>
sqVars == <<stats>>
shVars == <<shard>>
lgVars == <<legacy>>
extVars == <<wkVars, ldVars, auVars, inVars, fqVars,
            esVars,
            trVars,
            vrVars,
            tsVars,
            ckVars,
            sqVars,
            shVars,
            lgVars>>
stVars == <<corpus, stream, extVars>>
vars == <<solr, mongo, req, nops, nfail, log, last, history, corpus, stream,
          cache, queue, worker, load, bus, served, auth, areq, export,
          compiled,
          embedded,
          translated,
          vreq,
          tsel,
          chunk,
          stats,
          shard,
          legacy>>

(***************************************************************************)
(* Bounds of the model.                                                    *)
(***************************************************************************)
MaxOps == 2        \* add/delete requests accepted in one behaviour
MaxFail == 1       \* backend failures injected in one behaviour
MaxPages == 2      \* corpora of Part II span up to MaxPages full pages
MaxValues == 2     \* values given for one facet name in Part VII
MaxChars == 3      \* characters of a value embedded in Part VIII
MaxParams == 2     \* query parameters of one request in Part X
MaxExtent == 3     \* length of an axis of the arrays of Part XII
MaxSearches == 2   \* searches of one behaviour in Part XIII
MaxWrites == 3     \* user-data requests of one behaviour in Part XIV
MaxLegacyPages == 3  \* corpora of Part XV span up to MaxLegacyPages pages

(***************************************************************************)
(* Strings.                                                                *)
(***************************************************************************)
Str(w) == <<w>>

\* str.lower(), atom by atom
LowerAtom(a) ==
    CASE a = "Bob" -> "bob"
      [] a = "User" -> "user"
      [] a = "AND" -> "and"
      [] a = "OR" -> "or"
      [] a = "N" -> "n"
      [] a = "O" -> "o"
      [] a = "T" -> "t"
      [] a = "Variable" -> "variable"
      [] a = "_NOT_" -> "_not_"
      [] OTHER -> a

Lower(s) == [i \in 1..Len(s) |-> LowerAtom(s[i])]

\* the code point order of the first character of an atom
AtomRank(a) ==
    CASE a = " " -> 32
      [] a = "\"" -> 34
      [] a = "*" -> 42
      [] a = "-" -> 45
      [] a = "/" -> 47
      [] a \in {"0", "1", "2", "3", "4", "5", "6", "7", "8", "9"} ->
           48 + (CHOOSE d \in 0..9 : ToString(d) = a)
      [] a = ":" -> 58
      [] a = "AND" -> 65
      [] a = "Bob" -> 66
      [] a = "OR" -> 79
      [] a = "\\" -> 92
      [] a = "a" -> 97
      [] a \in {"alice", "and"} -> 97
      [] a \in {"b", "bob"} -> 98
      [] a = "c" -> 99
      [] a = "file" -> 102
      [] a = "mon" -> 109
      [] a = "or" -> 111
      [] a \in {"p", "pr", "posix"} -> 112
      [] a = "slk" -> 115
      [] a \in {"t", "tas"} -> 116
      [] a = "x" -> 120
      [] a = "y" -> 121
      [] OTHER -> 122

\* s < t in the order the backend sorts string fields
RECURSIVE StrLess(_, _)
StrLess(s, t) ==
    IF t = <<>> THEN FALSE
    ELSE IF s = <<>> THEN TRUE
    ELSE IF AtomRank(Head(s)) # AtomRank(Head(t))
         THEN AtomRank(Head(s)) < AtomRank(Head(t))
         ELSE StrLess(Tail(s), Tail(t))

\* str.replace(old, new)
RECURSIVE Replace(_, _, _)
Replace(s, old, new) ==
    IF Len(s) < Len(old) THEN s
    ELSE IF SubSeq(s, 1, Len(old)) = old
         THEN new \o Replace(SubSeq(s, Len(old) + 1, Len(s)), old, new)
         ELSE <<Head(s)>> \o Replace(Tail(s), old, new)

\* Solr.escape_chars
escape_chars ==
    << <<"+">>, <<"-">>, <<"&", "&">>, <<"|", "|">>, <<"!">>, <<"(">>,
       <<")">>, <<"{">>, <<"}">>, <<"[">>, <<"]">>, <<"^">>, <<"~">>,
       <<":">>, <<"/">> >>

\* for char in self.escape_chars: value = value.replace(char, "\\" + char)
RECURSIVE EscapeFrom(_, _)
EscapeFrom(value, k) ==
    IF k > Len(escape_chars) THEN value
    ELSE EscapeFrom(Replace(value, escape_chars[k], <<"\\">> \o escape_chars[k]),
                    k + 1)

\* escape_special_chars of _delete_from_solr
EscapeDelete(value) == EscapeFrom(value, 1)

\* escape_special_chars of _is_query_duplicate: the same, then the quote
EscapeLookup(value) == Replace(EscapeFrom(value, 1), <<"\"">>, <<"\\", "\"">>)

(***************************************************************************)
(* The backend's query parser (the classic Lucene syntax with the default  *)
(* operator OR), as far as the queries composed by the code can reach it:  *)
(* white space, backslash escapes, quoted phrases, wildcards, field:term   *)
(* clauses and the AND / OR conjunctions.  Any other unescaped special     *)
(* character is a syntax error, and so is a term without a field, since    *)
(* the update handler has no default field.                                *)
(***************************************************************************)
\* the fields of the index schema
SchemaFields == {"file", "uri", "variable", "time", "time_frequency", "user",
                 "fs_type", "project"}

TermSpecials == {" ", "\"", ":", "/", "(", ")", "{", "}", "[", "]", "^",
                 "~", "!", "+", "-", "*", "\\", "&", "|"}

\* the characters of the term that starts at s[i]: <<chars, next position>>
RECURSIVE LexTerm(_, _, _)
LexTerm(s, i, acc) ==
    IF i > Len(s) THEN <<acc, i>>
    ELSE IF s[i] = "\\"
         THEN IF i = Len(s) THEN <<acc, 0>>
              ELSE LexTerm(s, i + 2, Append(acc, [c |-> s[i + 1], esc |-> TRUE]))
    ELSE IF s[i] \notin TermSpecials \/ s[i] = "*"
            \/ (s[i] \in {"-", "+"} /\ acc # <<>>)
         THEN LexTerm(s, i + 1, Append(acc, [c |-> s[i], esc |-> FALSE]))
    ELSE <<acc, i>>

\* the characters of the phrase whose opening quote is s[i - 1]
RECURSIVE LexQuoted(_, _, _)
LexQuoted(s, i, acc) ==
    IF i > Len(s) THEN <<acc, 0>>
    ELSE IF s[i] = "\"" THEN <<acc, i + 1>>
    ELSE IF s[i] = "\\"
         THEN IF i = Len(s) THEN <<acc, 0>>
              ELSE LexQuoted(s, i + 2, Append(acc, [c |-> s[i + 1], esc |-> TRUE]))
    ELSE LexQuoted(s, i + 1, Append(acc, [c |-> s[i], esc |-> TRUE]))

\* the tokens of query string s from position i on; a token ERR marks a
\* lexical error
RECURSIVE Lex(_, _)
Lex(s, i) ==
    IF i > Len(s) THEN <<>>
    ELSE IF s[i] = " " THEN Lex(s, i + 1)
    ELSE IF s[i] = ":" THEN <<[t |-> "COLON", chars |-> <<>>]>> \o Lex(s, i + 1)
    ELSE IF s[i] = "\""
         THEN LET q == LexQuoted(s, i + 1, <<>>)
              IN  IF q[2] = 0 THEN <<[t |-> "ERR", chars |-> <<>>]>>
                  ELSE <<[t |-> "TERM", chars |-> q[1]]>> \o Lex(s, q[2])
    ELSE LET r == LexTerm(s, i, <<>>)
         IN  IF r[2] = 0 \/ r[1] = <<>>
             THEN <<[t |-> "ERR", chars |-> <<>>]>>
             ELSE IF r[1] = <<[c |-> "AND", esc |-> FALSE]>>
                  THEN <<[t |-> "AND", chars |-> <<>>]>> \o Lex(s, r[2])
             ELSE IF r[1] = <<[c |-> "OR", esc |-> FALSE]>>
                  THEN <<[t |-> "OR", chars |-> <<>>]>> \o Lex(s, r[2])
             ELSE <<[t |-> "TERM", chars |-> r[1]]>> \o Lex(s, r[2])

\* addClause of the classic parser: a clause introduced by AND is required
\* and makes the clause before it required
SetLastMust(cl) ==
    IF cl = <<>> THEN cl
    ELSE [cl EXCEPT ![Len(cl)] = [@ EXCEPT !.occur = "MUST"]]

ParseError == [ok |-> FALSE, clauses |-> <<>>]

\* the clauses of token list toks from position i on; conj is the
\* conjunction read before position i
RECURSIVE ParseClauses(_, _, _, _)
ParseClauses(toks, i, conj, acc) ==
    IF i > Len(toks)
    THEN IF conj = "NONE" /\ acc # <<>> THEN [ok |-> TRUE, clauses |-> acc]
         ELSE ParseError
    ELSE IF toks[i].t \in {"AND", "OR"}
         THEN IF conj # "NONE" \/ acc = <<>> THEN ParseError
              ELSE ParseClauses(toks, i + 1, toks[i].t, acc)
    ELSE IF toks[i].t = "TERM" /\ i + 2 <= Len(toks)
            /\ toks[i + 1].t = "COLON" /\ toks[i + 2].t = "TERM"
            /\ Len(toks[i].chars) = 1 /\ ~toks[i].chars[1].esc
            /\ toks[i].chars[1].c \in SchemaFields
         THEN LET c == [occur |-> IF conj = "AND" THEN "MUST" ELSE "SHOULD",
                        field |-> toks[i].chars[1].c,
                        term |-> toks[i + 2].chars]
                  prev == IF conj = "AND" THEN SetLastMust(acc) ELSE acc
              IN  ParseClauses(toks, i + 3, "NONE", Append(prev, c))
    ELSE ParseError

LuceneParse(q) == ParseClauses(Lex(q, 1), 1, "NONE", <<>>)

\* does the term (with its unescaped wildcards) match the field value v?
RECURSIVE TermMatches(_, _)
TermMatches(term, v) ==
    IF term = <<>> THEN v = <<>>
    ELSE IF Head(term).c = "*" /\ ~Head(term).esc
         THEN TermMatches(Tail(term), v)
              \/ (v # <<>> /\ TermMatches(term, Tail(v)))
    ELSE v # <<>> /\ Head(v) = Head(term).c /\ TermMatches(Tail(term), Tail(v))

ClauseMatches(doc, c) ==
    c.field \in DOMAIN doc /\ TermMatches(c.term, doc[c.field])

\* BooleanQuery: every MUST clause matches, no MUST_NOT clause matches, and
\* without a MUST clause at least one SHOULD clause matches (a query of
\* MUST_NOT clauses alone selects among all documents)
DocMatches(doc, clauses) ==
    LET idx == 1..Len(clauses)
        must == {k \in idx : clauses[k].occur = "MUST"}
        should == {k \in idx : clauses[k].occur = "SHOULD"}
        mustnot == {k \in idx : clauses[k].occur = "MUST_NOT"}
    IN  /\ \A k \in must : ClauseMatches(doc, clauses[k])
        /\ \A k \in mustnot : ~ClauseMatches(doc, clauses[k])
        /\ (must = {} /\ should # {}) =>
              \E k \in should : ClauseMatches(doc, clauses[k])

\* the documents of sequence docs that satisfy pred, in their order
RECURSIVE SelectDocs(_, _)
SelectDocs(docs, clauses) ==
    IF docs = <<>> THEN <<>>
    ELSE IF DocMatches(Head(docs), clauses)
         THEN <<Head(docs)>> \o SelectDocs(Tail(docs), clauses)
         ELSE SelectDocs(Tail(docs), clauses)

(***************************************************************************)
(* Part I.  Records, the two stores and the inputs of the requests.        *)
(***************************************************************************)
\* ServerConfig.solr_cores: (solr_core, "latest")
solr_cores == <<"files", "latest">>

FileA == <<"/", "a">>
FileB == <<"/", "b">>
FileC == <<"/", "c">>

ValidRec(file, variable) ==
    ("file" :> file) @@ ("variable" :> Str(variable)) @@ ("time" :> Str("t"))
    @@ ("time_frequency" :> Str("mon"))

RecA == ValidRec(FileA, "tas")
\* the same file as RecA with another variable
RecA2 == ValidRec(FileA, "pr")
\* a record that names another user as its owner
RecB == ValidRec(FileB, "tas") @@ ("user" :> Str("alice"))
\* records that lack a required field
RecNoTime == ("file" :> FileB) @@ ("variable" :> Str("tas"))
             @@ ("time_frequency" :> Str("mon"))
RecNoFile == ("variable" :> Str("tas")) @@ ("time" :> Str("t"))
             @@ ("time_frequency" :> Str("mon"))

\* a record of the out-of-band index population: it has no user field
RecOob == ValidRec(FileC, "tas") @@ ("uri" :> <<"slk", ":", "/", "c">>)
          @@ ("project" :> Str("x")) @@ ("fs_type" :> Str("posix"))

NoFacets == <<>>

\* the bodies of POST /databrowser/userdata: caller, user_metadata, facets
AddInputs ==
    { [user |-> Str("bob"), records |-> <<RecA>>, facets |-> NoFacets],
      [user |-> Str("bob"), records |-> <<RecA, RecA2>>, facets |-> NoFacets],
      [user |-> Str("bob"), records |-> <<RecB, RecNoTime>>,
       facets |-> ("user" :> Str("alice"))],
      [user |-> Str("alice"), records |-> <<RecA>>,
       facets |-> ("project" :> <<"x", " ", "AND">>)],
      [user |-> Str("Bob"), records |-> <<RecB>>, facets |-> NoFacets],
      [user |-> Str("alice"), records |-> <<RecNoFile, RecNoTime>>,
       facets |-> NoFacets] }

\* the requests DELETE /databrowser/userdata: the caller and the search
\* keys in the order of the submitted dictionary
DeleteInputs ==
    { [user |-> Str("bob"), keys |-> <<>>],
      [user |-> Str("Bob"), keys |-> <<>>],
      [user |-> Str("alice"), keys |-> << <<"user", Str("bob")>> >>],
      [user |-> Str("bob"), keys |-> << <<"file", FileA>> >>],
      [user |-> Str("bob"),
       keys |-> << <<"file", <<"/", "a", " ", "OR", " ", "/", "b">> >> >>],
      [user |-> Str("bob"), keys |-> << <<"project", <<"*", "\\">> >> >>] }

Idle == [pc |-> "idle"]
Nothing == [kind |-> "none"]
Slots == {1, 2}

\* _validate_user_metadata: required_fields
required_fields == {"file", "variable", "time", "time_frequency"}

\* a variant of validate_user_metadata that asks for the file field only
MutValidateFileOnly(user_metadata) ==
    LET valid(metadata) == "file" \in DOMAIN metadata
        kept == SelectSeq(user_metadata, valid)
    IN  [k \in 1..Len(kept) |-> ("uri" :> kept[k]["file"]) @@ kept[k]]

\* _validate_user_metadata: the records that hold every required field, in
\* their order, each with uri set to its file; the caller gets 422 when the
\* result is empty
validate_user_metadata(user_metadata) ==
    LET valid(metadata) == required_fields \subseteq DOMAIN metadata
        kept == SelectSeq(user_metadata, valid)
    IN  [k \in 1..Len(kept) |-> ("uri" :> kept[k]["file"]) @@ kept[k]]

\* self.fwrites |= {"user": user_name, "fs_type": self.fs_type} | facets
Fwrites(user_name, facets) ==
    facets @@ ("user" :> user_name) @@ ("fs_type" :> Str("posix"))

\* {**metadata, **self.fwrites} for metadata in user_metadata
processed_metadata(user_metadata, fwrites) ==
    [k \in 1..Len(user_metadata) |-> fwrites @@ user_metadata[k]]

\* Solr.batch_size
batch_size == 150

\* Solr._post_url: the core that add and delete write to
post_core(multi_version) ==
    IF multi_version THEN solr_cores[Len(solr_cores)] ELSE solr_cores[1]

\* Solr._get_url: the core a search reads
get_core(multi_version) ==
    IF multi_version THEN solr_cores[1] ELSE solr_cores[Len(solr_cores)]

\* the core _is_query_duplicate reads: self._config.solr_cores[-1]
lookup_core == solr_cores[Len(solr_cores)]

\* Solr.__init__: multi_version defaults to True
init_multi_version == TRUE

\* _is_query_duplicate: q = uri:"<escaped uri>" OR file:"<escaped file>"
LookupQuery(uri, file_path) ==
    <<"uri", ":", "\"">> \o EscapeLookup(uri) \o <<"\"", " ", "OR", " ">>
    \o <<"file", ":", "\"">> \o EscapeLookup(file_path) \o <<"\"">>

\* the backend's answer to a query on documents docs: "error" when the
\* query does not parse (HTTP 400), otherwise the matching documents
SolrSelect(docs, q) ==
    LET parsed == LuceneParse(q)
    IN  [ok |-> parsed.ok,
         docs |-> IF parsed.ok THEN SelectDocs(docs, parsed.clauses) ELSE <<>>]

\* a variant of is_query_duplicate that tests numFound > 1
MutDuplicateOffByOne(docs, uri, file_path, status_ok) ==
    LET found == SolrSelect(docs, LookupQuery(uri, file_path))
    IN  status_ok /\ found.ok /\ Len(found.docs) > 1

\* numFound > 0 with status 200; any other status counts as "no duplicate"
is_query_duplicate(docs, uri, file_path, status_ok) ==
    LET found == SolrSelect(docs, LookupQuery(uri, file_path))
    IN  status_ok /\ found.ok /\ Len(found.docs) > 0

(***************************************************************************)
(* The document store: bulk upsert keyed by (file, uri), and deleteMany.   *)
(***************************************************************************)
\* UpdateOne({"file": .., "uri": ..}, {"$set": metadata}, upsert=True)
UpsertOne(coll, metadata) ==
    LET hit == {d \in coll : d["file"] = metadata["file"]
                             /\ d["uri"] = metadata["uri"]}
    IN  IF hit = {} THEN coll \cup {metadata}
        ELSE (coll \ hit) \cup {metadata @@ d : d \in hit}

RECURSIVE insert_to_mongo(_, _)
insert_to_mongo(coll, metadata_batch) ==
    IF metadata_batch = <<>> THEN coll
    ELSE insert_to_mongo(UpsertOne(coll, Head(metadata_batch)),
                         Tail(metadata_batch))

\* search_keys["user"] = user_name: replaced in place, or appended
ForceUser(search_keys, user_name) ==
    IF \E k \in 1..Len(search_keys) : search_keys[k][1] = "user"
    THEN [k \in 1..Len(search_keys) |->
            IF search_keys[k][1] = "user" THEN <<"user", user_name>>
            ELSE search_keys[k]]
    ELSE Append(search_keys, <<"user", user_name>>)

\* _delete_from_mongo: {key: value if key.lower() == "file" else lower(value)}
MongoDeleteQuery(search_keys) ==
    [k \in 1..Len(search_keys) |->
        <<search_keys[k][1],
          IF LowerAtom(search_keys[k][1]) = "file" THEN search_keys[k][2]
          ELSE Lower(search_keys[k][2])>>]

MongoMatches(d, query) ==
    \A k \in 1..Len(query) :
        query[k][1] \in DOMAIN d /\ d[query[k][1]] = query[k][2]

\* _delete_from_solr: key_lower:escaped_value joined by " AND "; the value
\* is lower-cased unless the key is file
DeletePart(key, value) ==
    LET key_lower == LowerAtom(key)
    IN  IF key_lower = "file"
        THEN <<key_lower, ":">> \o EscapeDelete(value)
        ELSE <<key_lower, ":">> \o EscapeDelete(Lower(value))

RECURSIVE DeleteQuery(_)
DeleteQuery(search_keys) ==
    IF search_keys = <<>> THEN <<>>
    ELSE IF Len(search_keys) = 1
         THEN DeletePart(search_keys[1][1], search_keys[1][2])
         ELSE DeletePart(search_keys[1][1], search_keys[1][2])
              \o <<" ", "AND", " ">> \o DeleteQuery(Tail(search_keys))

\* the documents of docs that a delete-by-query q leaves in the core
RECURSIVE RejectDocs(_, _)
RejectDocs(docs, clauses) ==
    IF docs = <<>> THEN <<>>
    ELSE IF DocMatches(Head(docs), clauses)
         THEN RejectDocs(Tail(docs), clauses)
         ELSE <<Head(docs)>> \o RejectDocs(Tail(docs), clauses)

SolrDeleteByQuery(docs, q) ==
    LET parsed == LuceneParse(q)
    IN  IF parsed.ok THEN RejectDocs(docs, parsed.clauses) ELSE docs

SeqToSet(q) == {q[k] : k \in 1..Len(q)}

\* [dict(t) for t in {tuple(sorted(d.items())) for d in new_querie}]: the
\* distinct records, in the order a set happens to iterate
Dedup(new_querie) ==
    {q \in UNION {[1..n -> SeqToSet(new_querie)] : n \in 0..Len(new_querie)} :
        /\ SeqToSet(q) = SeqToSet(new_querie)
        /\ Len(q) = Cardinality(SeqToSet(new_querie))}

HasFile(docs, file) == \E k \in 1..Len(docs) : docs[k]["file"] = file

(***************************************************************************)
(* Search: the filter queries of _get_url, the sort order set by __init__  *)
(* and the cursor-mark pagination of _solr_page_response.                  *)
(***************************************************************************)
Wildcard == <<[c |-> "*", esc |-> FALSE]>>
Literal(v) == [k \in 1..Len(v) |-> [c |-> v[k], esc |-> TRUE]]

\* Solr.uniq_keys
uniq_keys == {"file", "uri"}

\* a variant of user_query without the user scope
MutUserQueryNone(flavour) ==
    [occur |-> "SHOULD", field |-> "file", term |-> Wildcard]

\* "user:*" if flavour == "user" else "{!ex=userTag}-user:*"
user_query(flavour) ==
    IF flavour = "user"
    THEN [occur |-> "MUST", field |-> "user", term |-> Wildcard]
    ELSE [occur |-> "MUST_NOT", field |-> "user", term |-> Wildcard]

\* key:(value) for a facet with one positive value; the value is
\* lower-cased unless the key is a uniq_key
facet_query(key, value) ==
    [occur |-> "MUST", field |-> LowerAtom(key),
     term |-> Literal(IF key \in uniq_keys THEN value ELSE Lower(value))]

\* _get_url: fq = [user_query, joined_query]; every fq must hold
FilterQueries(flavour, facets) ==
    <<user_query(flavour)>>
    \o [k \in 1..Len(facets) |-> facet_query(facets[k][1], facets[k][2])]

RECURSIVE ApplyFilters(_, _)
ApplyFilters(docs, fq) ==
    IF fq = <<>> THEN docs
    ELSE ApplyFilters(SelectDocs(docs, <<Head(fq)>>), Tail(fq))

\* a variant of sort_field that sorts by the requested uniq_key
MutSortUniqKey(uniq_key) == uniq_key

\* self.query["sort"] = "file desc", whatever the uniq_key
sort_field(uniq_key) == "file"

\* a stable merge sort of docs by field f, descending
RECURSIVE MergeDesc(_, _, _)
MergeDesc(a, b, f) ==
    IF a = <<>> THEN b
    ELSE IF b = <<>> THEN a
    ELSE IF StrLess(Head(a)[f], Head(b)[f])
         THEN <<Head(b)>> \o MergeDesc(a, Tail(b), f)
         ELSE <<Head(a)>> \o MergeDesc(Tail(a), b, f)

RECURSIVE SortDesc(_, _)
SortDesc(docs, f) ==
    IF Len(docs) <= 1 THEN docs
    ELSE LET h == Len(docs) \div 2
         IN  MergeDesc(SortDesc(SubSeq(docs, 1, h), f),
                       SortDesc(SubSeq(docs, h + 1, Len(docs)), f), f)

\* the cursor mark "*"
StartMark == <<>>

\* One backend request with cursorMark and rows on the sorted result list:
\* the next rows documents that sort strictly after the mark, and the mark
\* of the last of them (the submitted mark when there is none).
SolrPage(sorted, f, cursorMark, rows) ==
    LET skip == IF cursorMark = StartMark THEN 0
                ELSE Cardinality({k \in 1..Len(sorted) :
                                    ~StrLess(sorted[k][f], cursorMark[1])})
        stop == IF skip + rows < Len(sorted) THEN skip + rows ELSE Len(sorted)
        docs == SubSeq(sorted, skip + 1, stop)
    IN  [docs |-> docs,
         nextCursorMark |-> IF docs = <<>> THEN cursorMark
                            ELSE <<docs[Len(docs)][f]>>]

\* a variant of solr_page_response without the break: on a page whose
\* cursor is the submitted one it asks for the same page again
MutPageNeverEnds(g, results) ==
    IF results.nextCursorMark = g.cursorMark THEN g
    ELSE [g EXCEPT !.emitted = @ \o results.docs,
                   !.requests = @ + 1,
                   !.returned = results.nextCursorMark,
                   !.submitted = g.cursorMark,
                   !.cursorMark = results.nextCursorMark]

\* one iteration of the loop of _solr_page_response on generator state g,
\* given the body of the backend's answer
solr_page_response(g, results) ==
    [g EXCEPT !.emitted = @ \o results.docs,
              !.requests = @ + 1,
              !.returned = results.nextCursorMark,
              !.submitted = g.cursorMark,
              !.cursorMark = results.nextCursorMark,
              !.pc = IF results.nextCursorMark = g.cursorMark THEN "done"
                     ELSE "paging"]

\* the generator after self.query["cursorMark"] = "*"
NewStream(uniq_key) ==
    [pc |-> "paging", uniq_key |-> uniq_key, cursorMark |-> StartMark,
     emitted |-> <<>>, requests |-> 0, returned |-> StartMark,
     submitted |-> StartMark, failed |-> FALSE]

\* the whole stream over an unchanging list of matching documents
RECURSIVE RunStream(_, _)
RunStream(matching, g) ==
    IF g.pc = "done" THEN g
    ELSE RunStream(matching,
                   solr_page_response(g,
                       SolrPage(SortDesc(matching, sort_field(g.uniq_key)),
                                sort_field(g.uniq_key), g.cursorMark,
                                batch_size)))

\* stream_response: yield f"{result[self.uniq_key]}\n"
Lines(g) == [k \in 1..Len(g.emitted) |-> g.emitted[k][g.uniq_key]]

\* the same iteration when the backend answers with an error status:
\* results = {} has no docs, and "not results" breaks the loop
solr_page_rejected(g) ==
    [g EXCEPT !.requests = @ + 1, !.pc = "done", !.failed = TRUE]

(***************************************************************************)
(* Part II.  One data-search stream over an unchanging corpus.             *)
(***************************************************************************)
Digit(n) == ToString(n % 10)

DocFile(i) == <<"/", Digit(i \div 100), Digit(i \div 10), Digit(i)>>

\* document i of a corpus: with kind "same" every uri has the scheme file,
\* with kind "mixed" the even documents live on tape (scheme slk)
Doc(i, kind) ==
    [file |-> DocFile(i),
     uri |-> <<IF kind = "mixed" /\ i % 2 = 0 THEN "slk" ELSE "file", ":">>
             \o DocFile(i)]

CorpusSizes ==
    {0, 1, 2} \cup {batch_size * k + d : k \in 1..MaxPages, d \in {-1, 0, 1}}

\* the documents of corpus c = [n, kind], in the order they were indexed
Docs(c) == [i \in 1..c.n |-> Doc(i, c.kind)]

\* the backend's result list for sort=<f> desc over corpus c; it equals
\* SortDesc(Docs(c), f), written out because the files of a corpus are
\* numbered in their sort order
Sorted(c, f) ==
    IF f = "uri" /\ c.kind = "mixed"
    THEN LET evens == c.n \div 2
         IN  [p \in 1..c.n |->
                IF p <= evens THEN Doc(2 * (evens - p + 1), c.kind)
                ELSE Doc(2 * (c.n - p) + 1, c.kind)]
    ELSE [p \in 1..c.n |-> Doc(c.n + 1 - p, c.kind)]

(***************************************************************************)
(* Part III.  The cache entries of the data-loading worker.  Every write   *)
(* is a setex: the entry carries its time to live, and the cache may drop  *)
(* it at any later moment.                                                 *)
(***************************************************************************)
MaxMsgs == 3       \* messages delivered to the queue in one behaviour

\* the uuids of the datasets asked for, and the worker processes
Uuids == {"u1", "u2"}
Workers == {1, 2}

\* str_to_int(os.environ.get("API_CACHE_EXP"), 3600)
expires_in == 3600

\* str(error) of the exceptions the readers raise: an exception built
\* without arguments has the empty text
ErrorTexts == {<<>>, <<"No such file">>}

\* LoadStatus.lookup
OK == 0
FAILED == 1
WAITING == 2
IN_PROGRESS == 3

\* a worker: where it is, the uuid and the status_dict it works on, and
\* the entry spawn has read
Consuming ==
    [pc |-> "consuming", uuid5 |-> "none", status_dict |-> Nothing,
     seen |-> Nothing]
Dead ==
    [pc |-> "dead", uuid5 |-> "none", status_dict |-> Nothing,
     seen |-> Nothing]

\* the status_dict spawn starts with
spawn_status_dict(path_id) ==
    [status |-> WAITING,
     obj_path |-> <<"rest_url", "/", "api", "/", "freva-data-portal", "/",
                    "zarr", "/", path_id>>,
     obj |-> Nothing, reason |-> <<>>, url |-> <<>>, meta |-> Nothing,
     json_meta |-> Nothing]

\* LoadStatus.from_dict(load_dict).dict()
from_dict(load_dict) ==
    IF load_dict = Nothing
    THEN [status |-> WAITING, obj_path |-> <<>>, obj |-> Nothing,
          reason |-> <<>>, url |-> <<>>, meta |-> Nothing,
          json_meta |-> Nothing]
    ELSE load_dict

\* redis: cache.get(key) and cache.setex(key, ex, value)
get(key) == IF cache[key] = Nothing THEN Nothing ELSE cache[key].value

setex(key, ex, value) ==
    [cache EXCEPT ![key] = [value |-> value, ex |-> ex]]

\* a variant of should_load that loads unless the entry is waiting
MutLoadUnlessWaiting(entry) ==
    entry = Nothing \/ entry.status # WAITING

\* spawn: cache is None, or status_dict["status"] in (1, 2)
should_load(entry) ==
    entry = Nothing \/ entry.status \in {FAILED, WAITING}

\* from_object_path, the try block: the dataset is opened, its metadata
\* built and made JSON
loaded(status_dict, path_id) ==
    [status_dict EXCEPT !.json_meta = [zmetadata |-> path_id, json |-> TRUE],
                        !.obj = [dset |-> path_id],
                        !.meta = [zmetadata |-> path_id, json |-> FALSE],
                        !.status = OK]

\* from_object_path, the except block
failed(status_dict, error) ==
    [status_dict EXCEPT !.status = FAILED, !.reason = error]

(***************************************************************************)
(* Part IV.  The load response.  A uuid is the text of a digest of the     *)
(* namespace and the name, as uuid.uuid5 computes it (SHA-1 there, a       *)
(* shorter polynomial digest here).                                        *)
(***************************************************************************)
MaxLoads == 3      \* load requests in one behaviour
MaxUris == 2       \* records matched by one load request

\* uuid.NAMESPACE_URL
NAMESPACE_URL == <<"6", "b", "a", "7">>

RECURSIVE Digest(_, _)
Digest(s, h) ==
    IF s = <<>> THEN h
    ELSE Digest(Tail(s), (h * 31 + AtomRank(Head(s))) % 10000)

\* a variant of uuid5 that draws on the count of requests, as uuid1 draws
\* on the clock
MutUuidOfRequest(namespace, name) ==
    <<Digit(load.n), Digit(load.n), Digit(load.n), Digit(load.n)>>

\* str(uuid.uuid5(namespace, name))
uuid5(namespace, name) ==
    LET h == Digest(namespace \o name, 0)
    IN  <<Digit(h \div 1000), Digit(h \div 100), Digit(h \div 10), Digit(h)>>

\* f"{self._config.proxy}/api/freva-nextgen/data-portal/zarr"
api_path ==
    <<"proxy", "/", "api", "/", "freva-nextgen", "/", "data-portal", "/",
      "zarr">>

\* f"{api_path}/{uuid5}.zarr"
zarr_url(uuid) == api_path \o <<"/">> \o uuid \o <<".zarr">>

\* json.dumps({"uri": {"path": uri, "uuid": uuid5}})
job_message(uri, uuid) == [uri |-> [path |-> uri, uuid |-> uuid]]

\* the line streamed where the publish has failed
error_line == <<"Internal error, service not available", "\n">>

\* a variant of zarr_line that streams the URL whatever the publish did
MutLineAlwaysUrl(ld, uuid) ==
    IF ld.catalogue_type = "intake"
    THEN <<"   ", "{", "\"uri\"", ":">> \o zarr_url(uuid)
         \o <<"}">> \o (IF ld.num < Len(ld.uris) THEN <<",">> ELSE <<>>)
         \o <<"\n">>
    ELSE zarr_url(uuid) \o <<"\n">>

\* the line zarr_response yields for one result: f"{prefix}{output}{suffix}\n"
\* after the publish, the error line when the publish has raised
zarr_line(ld, uuid) ==
    IF ~ld.published THEN error_line
    ELSE IF ld.catalogue_type = "intake"
    THEN <<"   ", "{", "\"uri\"", ":">> \o zarr_url(uuid)
         \o <<"}">> \o (IF ld.num < Len(ld.uris) THEN <<",">> ELSE <<>>)
         \o <<"\n">>
    ELSE zarr_url(uuid) \o <<"\n">>

\* no load request is running; n requests were served
NoLoad ==
    [pc |-> "none", n |-> 0, catalogue_type |-> "none", uris |-> <<>>,
     k |-> 0, num |-> 0, published |-> FALSE, lines |-> <<>>]

(***************************************************************************)
(* Part V.  The SafeAuth object and the protected requests.                *)
(***************************************************************************)
MaxAuthReqs == 4   \* protected requests in one behaviour

\* the tasks that run protected requests at the same time
AuthSlots == {1, 2}

\* SafeAuth.__init__: no validator, the lock free
NoAuth(discovery_url) ==
    [discovery_url |-> discovery_url, _auth |-> Nothing, lock |-> 0,
     built |-> 0, n |-> 0]

NoRequest == [pc |-> "none", probe |-> "none", status |-> 0]

\* what session.get(self.discovery_url) can do: answer with 200, answer
\* with another status, raise an aiohttp.ClientError (connection refused,
\* name not resolved), or run into the total timeout of 5 seconds, which
\* raises asyncio.TimeoutError
ProbeOutcomes == {"200", "404", "ClientError", "TimeoutError"}

\* _check_server_available: True, False, or the exception it lets through
check_server_available(outcome) ==
    CASE outcome = "200" -> "True"
      [] outcome \in {"404", "ClientError", "no_url"} -> "False"
      [] OTHER -> "raises"

\* a variant of lock_free that lets every task in
MutNoLock(lock) == TRUE

\* async with self._lock: the lock can be taken
lock_free(lock) == lock = 0

\* dependency, after _ensure_auth_initialized: 503 without a validator,
\* else what self._auth.required answers
dependency(_auth) == IF _auth = Nothing THEN 503 ELSE 200

(***************************************************************************)
(* Part VI.  The intake-catalogue export.  What is streamed is kept as the *)
(* sequence of its JSON tokens (white space left out); the entry of a      *)
(* record is one token that holds the keys and the uniq_key value of the   *)
(* entry.                                                                  *)
(***************************************************************************)
Tok(t) == [t |-> t, keys |-> {}, uniq |-> <<>>]

\* _process_catalogue_result: the keys of the record that hold a value
\* (the records of a corpus hold the uniq keys only)
process_catalogue_result(out, uniq_key) ==
    IF uniq_key \in DOMAIN out
    THEN [t |-> "entry", keys |-> {uniq_key}, uniq |-> out[uniq_key]]
    ELSE [t |-> "entry", keys |-> {}, uniq |-> <<>>]

\* list(encoder.iterencode(catalogue))[:-1]: the header without the brace
\* that closes it
catalogue_header ==
    LET chunks == <<Tok("{"), Tok("members"), Tok("}")>>
    IN  SubSeq(chunks, 1, Len(chunks) - 1)

\* the entries of one page: f"{sep}\n   " and the encoded entry, for each of
\* results.get("response", {}).get("docs", [{}])
iterintake_page(docs, uniq_key, init) ==
    [i \in 1..(2 * Len(docs)) |->
        IF i % 2 = 1 THEN Tok(IF init /\ i = 1 THEN "[" ELSE ",")
        ELSE process_catalogue_result(docs[i \div 2], uniq_key)]

\* the docs of a rejected page: results = {}, so the default [{}]
rejected_docs == <<[none |-> TRUE]>>

\* a variant of intake_status that takes every max_results as a limit
MutLimitAlways(total_count, max_results) ==
    IF total_count = 0 THEN 404
    ELSE IF total_count > max_results THEN 413
    ELSE 200

\* intake_catalogue (route): 404 without results, 413 over a positive
\* max_results, else the status of the backend's answer
intake_status(total_count, max_results) ==
    IF total_count = 0 THEN 404
    ELSE IF total_count > max_results /\ max_results > 0 THEN 413
    ELSE 200

NoExport ==
    [pc |-> "none", uniq_key |-> "file", start |-> 0, max_results |-> -1,
     total_count |-> 0, status |-> 0, stored |-> FALSE,
     cursorMark |-> StartMark, init |-> TRUE, pieces |-> <<>>,
     rejected |-> FALSE, aborted |-> FALSE]

(***************************************************************************)
(* Part VII data: the facets of a search and the filter compiled of them.  *)
(***************************************************************************)
\* no search parameters given yet
NoFilter ==
    [pc |-> "idle", key |-> <<>>, facets |-> <<>>, query |-> <<>>,
     joined_query |-> <<>>]


(***************************************************************************)
(* Part IX: the Translator.  A lookup is a sequence of pairs               *)
(* <<key, value>> in the order of the dictionary it models.                *)
(***************************************************************************)
\* Translator.flavours
flavours == <<"freva", "cmip6", "cmip5", "cordex", "nextgems", "user">>

\* Translator._freva_facets: the keys, in their order
freva_facets ==
    << "project", "product", "institute", "model", "experiment",
       "time_frequency", "realm", "variable", "ensemble",
       "time_aggregation", "fs_type", "grid_label", "cmor_table",
       "driving_model", "format", "grid_id", "level_type", "rcm_name",
       "rcm_version", "dataset", "time", "bbox", "user" >>

\* Translator._cmip5_lookup
cmip5_lookup ==
    << <<"experiment", "experiment">>, <<"ensemble", "member_id">>,
       <<"fs_type", "fs_type">>, <<"grid_label", "grid_label">>,
       <<"institute", "institution_id">>, <<"model", "model_id">>,
       <<"project", "project">>, <<"product", "product">>,
       <<"realm", "realm">>, <<"variable", "variable">>, <<"time", "time">>,
       <<"bbox", "bbox">>, <<"time_aggregation", "time_aggregation">>,
       <<"time_frequency", "time_frequency">>,
       <<"cmor_table", "cmor_table">>, <<"dataset", "dataset">>,
       <<"driving_model", "driving_model">>, <<"format", "format">>,
       <<"grid_id", "grid_id">>, <<"level_type", "level_type">>,
       <<"rcm_name", "rcm_name">>, <<"rcm_version", "rcm_version">> >>

\* Translator._cmip6_lookup
cmip6_lookup ==
    << <<"experiment", "experiment_id">>, <<"ensemble", "member_id">>,
       <<"fs_type", "fs_type">>, <<"grid_label", "grid_label">>,
       <<"institute", "institution_id">>, <<"model", "source_id">>,
       <<"project", "mip_era">>, <<"product", "activity_id">>,
       <<"realm", "realm">>, <<"variable", "variable_id">>,
       <<"time", "time">>, <<"bbox", "bbox">>,
       <<"time_aggregation", "time_aggregation">>,
       <<"time_frequency", "frequency">>, <<"cmor_table", "table_id">>,
       <<"dataset", "dataset">>, <<"driving_model", "driving_model">>,
       <<"format", "format">>, <<"grid_id", "grid_id">>,
       <<"level_type", "level_type">>, <<"rcm_name", "rcm_name">>,
       <<"rcm_version", "rcm_version">> >>

\* Translator._cordex_lookup
cordex_lookup ==
    << <<"experiment", "experiment">>, <<"ensemble", "ensemble">>,
       <<"fs_type", "fs_type">>, <<"grid_label", "grid_label">>,
       <<"institute", "institution">>, <<"model", "model">>,
       <<"project", "project">>, <<"product", "domain">>,
       <<"realm", "realm">>, <<"variable", "variable">>, <<"time", "time">>,
       <<"bbox", "bbox">>, <<"time_aggregation", "time_aggregation">>,
       <<"time_frequency", "time_frequency">>,
       <<"cmor_table", "cmor_table">>, <<"dataset", "dataset">>,
       <<"driving_model", "driving_model">>, <<"format", "format">>,
       <<"grid_id", "grid_id">>, <<"level_type", "level_type">>,
       <<"rcm_name", "rcm_name">>, <<"rcm_version", "rcm_version">> >>

\* Translator._nextgems_lookup
nextgems_lookup ==
    << <<"experiment", "experiment">>, <<"ensemble", "member_id">>,
       <<"fs_type", "fs_type">>, <<"grid_label", "grid_label">>,
       <<"institute", "institution_id">>, <<"model", "source_id">>,
       <<"project", "project">>, <<"product", "experiment_id">>,
       <<"realm", "realm">>, <<"variable", "variable_id">>,
       <<"time", "time">>, <<"bbox", "bbox">>,
       <<"time_aggregation", "time_reduction">>,
       <<"time_frequency", "time_frequency">>,
       <<"cmor_table", "cmor_table">>, <<"dataset", "dataset">>,
       <<"driving_model", "driving_model">>, <<"format", "format">>,
       <<"grid_id", "grid_id">>, <<"level_type", "level_type">>,
       <<"rcm_name", "rcm_name">>, <<"rcm_version", "rcm_version">> >>

\* Translator.forward_lookup
forward_lookup(flavour) ==
    CASE flavour = "cmip6" -> cmip6_lookup
      [] flavour = "cmip5" -> cmip5_lookup
      [] flavour = "cordex" -> cordex_lookup
      [] flavour = "nextgems" -> nextgems_lookup
      [] OTHER -> [i \in 1..Len(freva_facets) |->
                      <<freva_facets[i], freva_facets[i]>>]

\* a variant of backward_lookup that does not invert the pairs
MutBackwardAsForward(flavour) == forward_lookup(flavour)

\* Translator.backward_lookup: {v: k for (k, v) in forward_lookup.items()}
backward_lookup(flavour) ==
    [i \in 1..Len(forward_lookup(flavour)) |->
        <<forward_lookup(flavour)[i][2], forward_lookup(flavour)[i][1]>>]

\* dict.get(key, default) of a dictionary built from pairs: the value of
\* the last pair with that key
dict_get(pairs, key, default) ==
    IF \E i \in 1..Len(pairs) : pairs[i][1] = key
    THEN pairs[CHOOSE i \in 1..Len(pairs) :
                  /\ pairs[i][1] = key
                  /\ \A j \in (i + 1)..Len(pairs) : pairs[j][1] # key][2]
    ELSE default

\* list(dict.keys()) and list(dict.values()) as sets
dict_keys(pairs) == {pairs[i][1] : i \in 1..Len(pairs)}
dict_values(pairs) == {pairs[i][2] : i \in 1..Len(pairs)}

\* Translator.translate_facets, for one facet
translate_facets(flavour, translate, f, backwards) ==
    IF translate
    THEN IF backwards THEN dict_get(backward_lookup(flavour), f, f)
         ELSE dict_get(forward_lookup(flavour), f, f)
    ELSE f

\* a variant of valid_facets that takes the canonical names, whatever
\* translate says
MutValidCanonical(flavour, translate) == dict_keys(forward_lookup(flavour))

\* Translator.valid_facets
valid_facets(flavour, translate) ==
    IF translate THEN dict_values(forward_lookup(flavour))
    ELSE dict_keys(forward_lookup(flavour))


(***************************************************************************)
(* Part XI data: points in time are tuples <<year, month, day, hour,       *)
(* minute, second>>; the text of a time gives the first fields of one.     *)
(***************************************************************************)
\* default=datetime(1, 1, 1, 0, 0, 0)
left_default == <<1, 1, 1, 0, 0, 0>>

\* a variant of right_default that is the left default
MutRightAsLeft == <<1, 1, 1, 0, 0, 0>>

\* default=datetime(9999, 12, 31, 23, 59, 59)
right_default == <<9999, 12, 31, 23, 59, 59>>

\* the number of days of a month, as the calendar has it
monthrange(year, month) ==
    IF month = 2
    THEN IF (year % 4 = 0 /\ year % 100 # 0) \/ year % 400 = 0 THEN 29 ELSE 28
    ELSE IF month \in {4, 6, 9, 11} THEN 30 ELSE 31

\* dateutil's parse(text, default=...): the fields the text gives, the
\* others from the default, the day not beyond the end of its month
parse(text, default) ==
    LET raw == [i \in 1..6 |-> IF i <= Len(text) THEN text[i] ELSE default[i]]
    IN  [raw EXCEPT ![3] = IF raw[3] > monthrange(raw[1], raw[2])
                           THEN monthrange(raw[1], raw[2]) ELSE raw[3]]

\* select_methods
select_methods ==
    [strict |-> "Within", flexible |-> "Intersects", file |-> "Contains"]

\* Solr.adjust_time_string: {!field f=time op=...}[start TO end]; an empty
\* start stands for "1", an empty end for "9999"
adjust_time_string(time, time_select) ==
    [op |-> select_methods[time_select],
     start |-> parse(IF time.start = <<>> THEN <<1>> ELSE time.start,
                     left_default),
     end |-> parse(IF time.end = <<>> THEN <<9999>> ELSE time.end,
                   right_default)]

\* s is not later than t
TimeLeq(s, t) ==
    \/ s = t
    \/ \E i \in 1..6 : s[i] < t[i] /\ \A j \in 1..(i - 1) : s[j] = t[j]

\* the backend's test of a date range field against a filter
RangeMatches(record, fq) ==
    CASE fq.op = "Within" ->
           TimeLeq(fq.start, record.lo) /\ TimeLeq(record.hi, fq.end)
      [] fq.op = "Intersects" ->
           TimeLeq(record.lo, fq.end) /\ TimeLeq(fq.start, record.hi)
      [] OTHER ->
           TimeLeq(record.lo, fq.start) /\ TimeLeq(fq.end, record.hi)


(***************************************************************************)
(* Part XIII data: the statistics of the searches.                         *)
(***************************************************************************)
\* no search yet: the request handler is idle, no task is scheduled, the
\* collection search_queries is empty
NoStats ==
    [kind |-> "stats", pc |-> "idle", n |-> 0, search |-> <<>>,
     tasks |-> {}, search_queries |-> {}, warnings |-> {},
     responses |-> <<>>]

\* a variant of skip_store that also skips the searches with one result
MutSkipSingle(num_results) == num_results < 2

\* store_results: if num_results == 0: return
skip_store(num_results) == num_results = 0


(***************************************************************************)
(* Part XIV data: both cores are empty and nothing was written yet.        *)
(***************************************************************************)
NoWrites ==
    [kind |-> "cores", n |-> 0,
     cores |-> [c \in {"files", "latest"} |-> {}],
     op |-> "none", multi_version |-> TRUE, core |-> "none"]

\* the index as the out-of-band population left it
InitIndex == [c \in SeqToSet(solr_cores) |-> <<RecOob>>]

\* Part I starts with no request and no stream
UdInit ==
    /\ solr = InitIndex
    /\ mongo = {}
    /\ req = [s \in Slots |-> Idle]
    /\ nops = 0
    /\ nfail = 0
    /\ log = {}
    /\ last = Nothing
    /\ history = <<>>
    /\ corpus = [n |-> 0, kind |-> "same"]
    /\ stream = [pc |-> "none"]
    /\ cache = [u \in Uuids |-> Nothing]
    /\ queue = [msgs |-> <<>>, sent |-> 0]
    /\ worker = [w \in Workers |-> Consuming]
    /\ load = NoLoad
    /\ bus = <<>>
    /\ served = {}
    /\ auth = NoAuth(<<>>)
    /\ areq = [r \in AuthSlots |-> NoRequest]
    /\ export = NoExport
    /\ compiled = NoFilter
    /\ embedded = Nothing
    /\ translated = Nothing
    /\ vreq = Nothing
    /\ tsel = Nothing
    /\ chunk = Nothing
    /\ stats = Nothing
    /\ shard = Nothing
    /\ legacy = Nothing

\* Part II starts after self.query["cursorMark"] = "*", on any corpus
StreamInit ==
    /\ solr = InitIndex
    /\ mongo = {}
    /\ req = [s \in Slots |-> Idle]
    /\ nops = 0
    /\ nfail = 0
    /\ log = {}
    /\ last = Nothing
    /\ history = <<>>
    /\ \E n \in CorpusSizes, kind \in {"same", "mixed"} :
          corpus = [n |-> n, kind |-> kind]
    /\ \E uniq_key \in uniq_keys : stream = NewStream(uniq_key)
    /\ cache = [u \in Uuids |-> Nothing]
    /\ queue = [msgs |-> <<>>, sent |-> 0]
    /\ worker = [w \in Workers |-> Consuming]
    /\ load = NoLoad
    /\ bus = <<>>
    /\ served = {}
    /\ auth = NoAuth(<<>>)
    /\ areq = [r \in AuthSlots |-> NoRequest]
    /\ export = NoExport
    /\ compiled = NoFilter
    /\ embedded = Nothing
    /\ translated = Nothing
    /\ vreq = Nothing
    /\ tsel = Nothing
    /\ chunk = Nothing
    /\ stats = Nothing
    /\ shard = Nothing
    /\ legacy = Nothing

\* one iteration: the GET succeeds
StreamPage ==
    /\ stream.pc = "paging"
    /\ \E sorted \in {Sorted(corpus, sort_field(stream.uniq_key))} :
        \E results \in {SolrPage(sorted, sort_field(stream.uniq_key),
                                 stream.cursorMark, batch_size)} :
            stream' = solr_page_response(stream, results)
    /\ UNCHANGED <<corpus, udVars, extVars>>

\* one iteration: the backend answers with an error status
StreamPageRejected ==
    /\ stream.pc = "paging"
    /\ stream' = solr_page_rejected(stream)
    /\ UNCHANGED <<corpus, udVars, extVars>>

\* one iteration: the backend is unreachable; _session_get raises 503 and
\* the generator ends with it
StreamPageUnreachable ==
    /\ stream.pc = "paging"
    /\ stream' = [stream EXCEPT !.pc = "done", !.failed = TRUE]
    /\ UNCHANGED <<corpus, udVars, extVars>>

StreamNext == StreamPage \/ StreamPageRejected \/ StreamPageUnreachable

\* the loop goes on whenever the backend answers
SpecStream == StreamInit /\ [][StreamNext]_vars /\ WF_vars(StreamPage)

(***************************************************************************)
(* Part I.  The requests.  A request runs in a slot and is suspended at    *)
(* every backend call, where the requests of other slots may run.  A       *)
(* backend call succeeds, is answered with an error status ("rejected"),   *)
(* or cannot connect ("unreachable").                                      *)
(***************************************************************************)
Busy(s) == req[s].pc # "idle"

\* a new request takes the lowest free slot
Free(s) == ~Busy(s) /\ \A t \in Slots : t < s => Busy(t)

\* a request entering slot s no longer runs alone if another one is running
Entered(s, r) ==
    [t \in Slots |->
        IF t = s THEN [r EXCEPT !.alone = \A u \in Slots \ {s} : ~Busy(u)]
        ELSE IF Busy(t) THEN [req[t] EXCEPT !.alone = FALSE]
        ELSE req[t]]

CountFile(docs, file) ==
    Cardinality({k \in 1..Len(docs) : docs[k]["file"] = file})

\* the summary of the request of slot s as it ends with status
Summary(s, r, status, index) ==
    [op |-> r.op, user |-> r.user, records |-> r.records, status |-> status,
     ingested |-> r.ingested, duplicated |-> r.duplicated,
     alone |-> r.alone, clean |-> r.clean, held |-> r.held,
     index |-> r.index, store |-> r.store,
     count |-> IF r.op = "add" /\ r.file # <<>>
               THEN CountFile(index[lookup_core], r.file) ELSE 0]

Remember(sum) ==
    IF Len(history) < 2 THEN Append(history, sum) ELSE <<history[2], sum>>

\* the slot's request ends: its summary is kept and the slot is free
Finish(s, r, status, index) ==
    /\ req' = [req EXCEPT ![s] = Idle]
    /\ history' = Remember(Summary(s, r, status, index))

FirstBatch(pm) == SubSeq(pm, 1, IF Len(pm) < batch_size THEN Len(pm) ELSE batch_size)
RestBatch(pm) == SubSeq(pm, batch_size + 1, Len(pm))

\* add_user_metadata up to the first backend call of _ingest_user_metadata:
\* the facets are merged into the records, the first batch is taken
add_user_metadata(s, user_name, user_metadata, facets, submitted) ==
    LET pm == processed_metadata(user_metadata, Fwrites(user_name, facets))
    IN  Entered(s, [pc |-> "lookup", op |-> "add", user |-> user_name,
                    records |-> submitted, batch |-> FirstBatch(pm),
                    rest |-> RestBatch(pm), i |-> 1, new_querie |-> <<>>,
                    processed_batch |-> <<>>, ingested |-> 0, duplicated |-> 0,
                    alone |-> TRUE, clean |-> TRUE, index |-> "none",
                    store |-> "none", file |-> pm[1]["file"],
                    held |-> HasFile(solr[lookup_core], pm[1]["file"])])

\* the summary of a request that _validate_user_metadata refuses
Refused(s, inp) ==
    [op |-> "add", user |-> inp.user, records |-> inp.records, status |-> 422,
     ingested |-> 0, duplicated |-> 0,
     alone |-> \A u \in Slots \ {s} : ~Busy(u), clean |-> TRUE,
     held |-> FALSE, index |-> "none", store |-> "none", count |-> 0]

\* POST /databrowser/userdata: the handler validates the submitted records
\* and hands the valid ones to add_user_metadata; HTTPException(422) of
\* _validate_user_metadata ends the request before anything is written
AddStart(s) ==
    /\ Free(s)
    /\ nops < MaxOps
    /\ \E inp \in AddInputs :
        LET validated == validate_user_metadata(inp.records)
        IN  /\ log' = IF Len(validated) < Len(inp.records)
                      THEN log \cup {"Invalid metadata"} ELSE log
            /\ IF validated = <<>>
               THEN /\ history' = Remember(Refused(s, inp))
                    /\ req' = req
                    /\ last' = [kind |-> "refused", records |-> inp.records,
                                index |-> solr, store |-> mongo]
               ELSE /\ req' = add_user_metadata(s, inp.user, validated,
                                                inp.facets, inp.records)
                    /\ history' = history
                    /\ last' = Nothing
    /\ nops' = nops + 1
    /\ UNCHANGED <<solr, mongo, nfail, stVars>>

\* the state of an add after new_querie is complete for the batch:
\* _process_metadata returns, the duplicates are counted
AfterLookups(r, new_querie, processed) ==
    [r EXCEPT !.new_querie = new_querie,
              !.processed_batch = processed,
              !.duplicated = @ + Len(r.batch) - Len(processed),
              !.i = 1,
              !.pc = IF processed # <<>> THEN "post" ELSE "next"]

\* _process_metadata: one _is_query_duplicate call, answered with answer
Lookup(s, status_ok) ==
    LET r == req[s]
        metadata == r.batch[r.i]
        skip == metadata["uri"] = <<>> /\ metadata["file"] = <<>>
        dup == is_query_duplicate(solr[lookup_core], metadata["uri"],
                                  metadata["file"], status_ok)
        new_querie == IF skip \/ dup THEN r.new_querie
                      ELSE Append(r.new_querie, metadata)
    IN  IF r.i < Len(r.batch)
        THEN req' = [req EXCEPT ![s] = [r EXCEPT !.new_querie = new_querie,
                                                 !.i = @ + 1,
                                                 !.clean = @ /\ status_ok]]
        ELSE \E processed \in Dedup(new_querie) :
                req' = [req EXCEPT ![s] =
                          [AfterLookups(r, new_querie, processed)
                             EXCEPT !.clean = @ /\ status_ok]]

AddLookup(s) ==
    /\ req[s].pc = "lookup"
    /\ Lookup(s, TRUE)
    /\ last' = Nothing
    /\ UNCHANGED <<solr, mongo, nops, nfail, log, history, stVars>>

AddLookupRejected(s) ==
    /\ req[s].pc = "lookup"
    /\ nfail < MaxFail
    /\ Lookup(s, FALSE)
    /\ nfail' = nfail + 1
    /\ last' = Nothing
    /\ UNCHANGED <<solr, mongo, nops, log, history, stVars>>

\* _session_get / _session_post cannot connect: HTTPException(503) ends
\* the request where it stands
Unreachable(s) ==
    /\ req[s].pc \in {"lookup", "post", "delsolr"}
    /\ nfail < MaxFail
    /\ Finish(s, [req[s] EXCEPT !.clean = FALSE,
                                !.index = IF req[s].pc = "lookup" THEN @
                                          ELSE "unreachable"], 503, solr)
    /\ nfail' = nfail + 1
    /\ log' = log \cup {"Connection failed"}
    /\ last' = [kind |-> "unreachable", op |-> req[s].op, at |-> req[s].pc]
    /\ UNCHANGED <<solr, mongo, nops, stVars>>

\* a variant of after_add_to_solr that skips _insert_to_mongo when the last
\* POST of the batch was answered with an error status
MutAbortOnRejected(r, status_ok) ==
    [r EXCEPT !.i = IF r.i < Len(r.processed_batch) THEN r.i + 1 ELSE 1,
              !.pc = IF r.i < Len(r.processed_batch) THEN "post"
                     ELSE IF status_ok THEN "mongo" ELSE "next"]

\* _ingest_user_metadata after one POST of _add_to_solr was answered,
\* whatever the status: the next record of the batch, then _insert_to_mongo
after_add_to_solr(r, status_ok) ==
    [r EXCEPT !.i = IF r.i < Len(r.processed_batch) THEN r.i + 1 ELSE 1,
              !.pc = IF r.i < Len(r.processed_batch) THEN "post" ELSE "mongo"]

\* _add_to_solr: one POST of [metadata] with commit=true&overwrite=false
AddPost(s) ==
    /\ req[s].pc = "post"
    /\ LET r == req[s]
           metadata == r.processed_batch[r.i]
           core == post_core(init_multi_version)
       IN  /\ solr' = [solr EXCEPT ![core] = Append(@, metadata)]
           /\ req' = [req EXCEPT ![s] =
                        [after_add_to_solr(r, TRUE)
                           EXCEPT !.ingested = @ + 1,
                                  !.index = IF @ = "none" THEN "written" ELSE @]]
           /\ last' = [kind |-> "write", store |-> "solr", user |-> r.user,
                       records |-> {metadata}]
    /\ UNCHANGED <<mongo, nops, nfail, log, history, stVars>>

\* the POST is answered with an error status: logged, not counted
AddPostRejected(s) ==
    /\ req[s].pc = "post"
    /\ nfail < MaxFail
    /\ LET r == req[s]
       IN  req' = [req EXCEPT ![s] =
                     [after_add_to_solr(r, FALSE)
                        EXCEPT !.clean = FALSE, !.index = "rejected"]]
    /\ nfail' = nfail + 1
    /\ log' = log \cup {"POST request failed"}
    /\ last' = [kind |-> "rejected", op |-> "add", store |-> "solr"]
    /\ UNCHANGED <<solr, mongo, nops, history, stVars>>

\* _insert_to_mongo of the batch; then the next batch or the summary
AddMongo(s) ==
    /\ req[s].pc = "mongo"
    /\ mongo' = insert_to_mongo(mongo, req[s].processed_batch)
    /\ req' = [req EXCEPT ![s] = [@ EXCEPT !.pc = "next", !.store = "written"]]
    /\ last' = [kind |-> "write", store |-> "mongo", user |-> req[s].user,
                records |-> SeqToSet(req[s].processed_batch)]
    /\ UNCHANGED <<solr, nops, nfail, log, history, stVars>>

\* the bulk write raises: logged, the request goes on
AddMongoFailed(s) ==
    /\ req[s].pc = "mongo"
    /\ nfail < MaxFail
    /\ req' = [req EXCEPT ![s] = [@ EXCEPT !.pc = "next", !.clean = FALSE,
                                           !.store = "failed"]]
    /\ nfail' = nfail + 1
    /\ log' = log \cup {"Could not insert metadata"}
    /\ last' = [kind |-> "rejected", op |-> "add", store |-> "mongo"]
    /\ UNCHANGED <<solr, mongo, nops, history, stVars>>

\* _ingest_user_metadata: the next batch, or add_user_metadata returns
AddNext(s) ==
    /\ req[s].pc = "next"
    /\ req[s].op = "add"
    /\ LET r == req[s]
       IN  IF r.rest # <<>>
           THEN /\ req' = [req EXCEPT ![s] =
                             [r EXCEPT !.batch = FirstBatch(r.rest),
                                       !.rest = RestBatch(r.rest),
                                       !.i = 1, !.new_querie = <<>>,
                                       !.processed_batch = <<>>,
                                       !.store = "none",
                                       !.pc = "lookup"]]
                /\ history' = history
           ELSE Finish(s, r, 202, solr)
    /\ last' = Nothing
    /\ UNCHANGED <<solr, mongo, nops, nfail, log, stVars>>

\* DELETE /databrowser/userdata: delete_user_metadata forces the user key
DeleteStart(s) ==
    /\ Free(s)
    /\ nops < MaxOps
    /\ \E inp \in DeleteInputs :
        req' = Entered(s, [pc |-> "delsolr", op |-> "delete", user |-> inp.user,
                           records |-> inp.keys,
                           search_keys |-> ForceUser(inp.keys, inp.user),
                           ingested |-> 0, duplicated |-> 0, alone |-> TRUE,
                           clean |-> TRUE, index |-> "none", store |-> "none",
                           file |-> <<>>, held |-> FALSE])
    /\ nops' = nops + 1
    /\ last' = Nothing
    /\ UNCHANGED <<solr, mongo, nfail, log, history, stVars>>

\* _delete_from_solr: POST {"delete": {"query": query_str}} to _post_url.
\* A query the backend cannot parse is answered 400, which is logged.
DeleteSolr(s) ==
    /\ req[s].pc = "delsolr"
    /\ LET r == req[s]
           core == post_core(init_multi_version)
           q == DeleteQuery(r.search_keys)
           left == SolrDeleteByQuery(solr[core], q)
       IN  /\ solr' = [solr EXCEPT ![core] = left]
           /\ log' = IF ~LuceneParse(q).ok
                     THEN log \cup {"POST request failed"} ELSE log
           /\ last' = [kind |-> "delete", store |-> "solr", user |-> r.user,
                       query |-> q,
                       removed |-> {solr[core][k] : k \in
                                      {j \in 1..Len(solr[core]) :
                                         ~\E m \in 1..Len(left) :
                                            left[m] = solr[core][j]}}]
    /\ req' = [req EXCEPT ![s] = [@ EXCEPT !.pc = "delmongo",
                                           !.index = "written"]]
    /\ UNCHANGED <<mongo, nops, nfail, history, stVars>>

DeleteSolrRejected(s) ==
    /\ req[s].pc = "delsolr"
    /\ nfail < MaxFail
    /\ req' = [req EXCEPT ![s] = [@ EXCEPT !.pc = "delmongo", !.clean = FALSE,
                                           !.index = "rejected"]]
    /\ nfail' = nfail + 1
    /\ log' = log \cup {"POST request failed"}
    /\ last' = [kind |-> "rejected", op |-> "delete", store |-> "solr"]
    /\ UNCHANGED <<solr, mongo, nops, history, stVars>>

\* _delete_from_mongo: delete_many(query); then the request ends
DeleteMongo(s) ==
    /\ req[s].pc = "delmongo"
    /\ LET r == req[s]
           query == MongoDeleteQuery(r.search_keys)
           left == {d \in mongo : ~MongoMatches(d, query)}
       IN  /\ mongo' = left
           /\ last' = [kind |-> "delete", store |-> "mongo", user |-> r.user,
                       query |-> query, removed |-> mongo \ left]
           /\ Finish(s, [r EXCEPT !.store = "written"], 202, solr)
    /\ UNCHANGED <<solr, nops, nfail, log, stVars>>

DeleteMongoFailed(s) ==
    /\ req[s].pc = "delmongo"
    /\ nfail < MaxFail
    /\ Finish(s, [req[s] EXCEPT !.clean = FALSE, !.store = "failed"], 202, solr)
    /\ nfail' = nfail + 1
    /\ log' = log \cup {"Could not remove metadata"}
    /\ last' = [kind |-> "rejected", op |-> "delete", store |-> "mongo"]
    /\ UNCHANGED <<solr, mongo, nops, stVars>>

\* the search requests: flavour, uniq_key and the facets as key/value pairs
SearchInputs ==
    { [flavour |-> "freva", uniq_key |-> "file", facets |-> <<>>,
       multi_version |-> FALSE],
      [flavour |-> "freva", uniq_key |-> "file", facets |-> <<>>,
       multi_version |-> TRUE],
      [flavour |-> "cmip6", uniq_key |-> "uri",
       facets |-> << <<"user", Str("bob")>> >>, multi_version |-> FALSE],
      [flavour |-> "user", uniq_key |-> "file", facets |-> <<>>,
       multi_version |-> FALSE] }

\* GET /databrowser/data-search/{flavour}/{uniq_key}: the whole stream, read
\* from a corpus that does not change meanwhile
Search ==
    /\ \E inp \in SearchInputs :
        LET core == get_core(inp.multi_version)
            matching == ApplyFilters(solr[core],
                                     FilterQueries(inp.flavour, inp.facets))
            g == RunStream(matching, NewStream(inp.uniq_key))
        IN  last' = [kind |-> "search", flavour |-> inp.flavour,
                     uniq_key |-> inp.uniq_key, core |-> core,
                     matching |-> matching, docs |-> g.emitted]
    /\ UNCHANGED <<solr, mongo, req, nops, nfail, log, history, stVars>>

UdNext ==
    \/ \E s \in Slots :
        \/ AddStart(s) \/ AddLookup(s) \/ AddLookupRejected(s)
        \/ AddPost(s) \/ AddPostRejected(s) \/ AddMongo(s)
        \/ AddMongoFailed(s) \/ AddNext(s) \/ Unreachable(s)
        \/ DeleteStart(s) \/ DeleteSolr(s) \/ DeleteSolrRejected(s)
        \/ DeleteMongo(s) \/ DeleteMongoFailed(s)
    \/ Search

SpecUserData == UdInit /\ [][UdNext]_vars

(***************************************************************************)
(* Properties of Part I, checked under SpecUserData.                       *)
(***************************************************************************)
Owned(d) == "user" \in DOMAIN d /\ d["user"] # <<>>

OwnedBy(d, user_name) == "user" \in DOMAIN d /\ d["user"] = user_name

\* C1: whatever adds and deletes came before, a search with a flavour other
\* than user returns no record whose user field is non-empty.
C1_UserScope ==
    (last.kind = "search" /\ last.flavour # "user") =>
        \A k \in 1..Len(last.docs) : ~Owned(last.docs[k])

\* a search of another flavour returned records from a core that holds a
\* user's record
C1_Witness ==
    /\ last.kind = "search"
    /\ last.flavour # "user"
    /\ last.docs # <<>>
    /\ \E k \in 1..Len(solr[last.core]) : Owned(solr[last.core][k])

\* C2: a delete by caller U, whatever its search keys, removes from the index
\* and from the document store only records whose user field equals U.
C2_DeleteOnlyOwn ==
    last.kind = "delete" => \A d \in last.removed : OwnedBy(d, last.user)

\* C3: every record that an add by caller U writes to the index or to the
\* document store carries user = U, whatever the submitted record and the
\* extra facets say.
C3_WrittenUserIsCaller ==
    last.kind = "write" => \A d \in last.records : OwnedBy(d, last.user)

\* two add requests, one after the other and with no other request or
\* failure meanwhile, that submit the same single record, whose file the
\* index did not hold before the first
TwiceTheSame ==
    /\ Len(history) = 2
    /\ \A k \in 1..2 :
          /\ history[k].op = "add"
          /\ history[k].alone
          /\ history[k].clean
          /\ history[k].records = <<RecA>>
    /\ ~history[1].held

\* C4: the same valid record submitted by two consecutive adds to an index
\* that did not hold it: the first reports 1 ingested and 0 duplicates, the
\* second 0 ingested and 1 duplicate, and the index then holds exactly one
\* record of that file.
C4_IngestDedup ==
    TwiceTheSame =>
        /\ history[1].ingested = 1 /\ history[1].duplicated = 0
        /\ history[2].ingested = 0 /\ history[2].duplicated = 1
        /\ history[1].count = 1 /\ history[2].count = 1

C4_Witness == TwiceTheSame /\ history[2].status = 202

\* C5: whatever the interleaving of the adds, no two records of the index
\* share the same file or the same uri.
C5_UniqueFileAndUri ==
    \A c \in DOMAIN solr :
        \A i, j \in 1..Len(solr[c]) :
            i < j => /\ solr[c][i]["file"] # solr[c][j]["file"]
                     /\ solr[c][i]["uri"] # solr[c][j]["uri"]

HasRequired(d) == required_fields \subseteq DOMAIN d

C8_EmittedExactlyOnce ==
    last.kind = "search" =>
        /\ \A i, j \in 1..Len(last.docs) :
              i < j => last.docs[i][last.uniq_key] # last.docs[j][last.uniq_key]
        /\ \A k \in 1..Len(last.matching) :
              \E i \in 1..Len(last.docs) : last.docs[i] = last.matching[k]

(***************************************************************************)
(* Properties of Part II, checked under SpecStream.                        *)
(***************************************************************************)
\* C9: on a finite corpus the stream ends after finitely many backend
\* requests; it goes on while the returned cursor differs from the submitted
\* one and stops at the first page where they are equal.
C9_StreamEnds ==
    /\ [](stream.requests <= corpus.n \div batch_size + 2)
    /\ []((stream.pc = "paging" /\ stream.requests > 0) =>
             stream.returned # stream.submitted)
    /\ []((stream.pc = "done" /\ ~stream.failed) =>
             stream.returned = stream.submitted)
    /\ <>(stream.pc = "done")

\* a stream over more than two pages has ended on a page whose cursor is the
\* submitted one
C9_Witness ==
    /\ stream.pc = "done"
    /\ ~stream.failed
    /\ stream.requests > 2
    /\ stream.returned = stream.submitted
    /\ Len(stream.emitted) = corpus.n

\* C10 as stated: the records of a response are delivered in descending
\* order of the requested uniq_key, across the pages.
C10_DescendingByUniqKey ==
    \A k \in 1..(Len(stream.emitted) - 1) :
        StrLess(stream.emitted[k + 1][stream.uniq_key],
                stream.emitted[k][stream.uniq_key])

\* C10, amended: the records of a response are delivered in descending order
\* of file, for uniq_key = file and uniq_key = uri alike, across the pages.
C10_DescendingByFile ==
    \A k \in 1..(Len(stream.emitted) - 1) :
        StrLess(stream.emitted[k + 1]["file"], stream.emitted[k]["file"])

\* a uri stream over a corpus with two uri schemes has delivered more than
\* one page
C10_Witness ==
    /\ stream.uniq_key = "uri"
    /\ corpus.kind = "mixed"
    /\ stream.requests >= 2
    /\ Len(stream.emitted) > batch_size

(***************************************************************************)
(* Part III.  The worker.  Each worker consumes the queue one message at   *)
(* a time (basic_consume with auto_ack) and handles it to the end before   *)
(* it takes the next; between two calls to the cache the other worker may  *)
(* run and entries may expire.  An exception that leaves the callback      *)
(* leaves start_consuming and run_for_ever, and the process ends.          *)
(***************************************************************************)
wkOthers == <<udVars, corpus, stream, ldVars, auVars, inVars, fqVars,
    esVars,
    trVars,
    vrVars,
    tsVars,
    ckVars,
    sqVars,
    shVars,
    lgVars>>

\* the bodies a client can publish
Messages ==
    {[kind |-> "uri", uuid5 |-> u] : u \in Uuids}
    \cup {[kind |-> "chunk", uuid5 |-> u] : u \in Uuids}
    \cup {[kind |-> "garbage", uuid5 |-> "none"]}

\* a client publishes a message
Deliver ==
    /\ queue.sent < MaxMsgs
    /\ \E m \in Messages :
        queue' = [msgs |-> Append(queue.msgs, m), sent |-> queue.sent + 1]
    /\ UNCHANGED <<cache, worker, wkOthers>>

\* the time to live of an entry is over
Expire ==
    /\ \E u \in Uuids :
        /\ cache[u] # Nothing
        /\ cache' = [cache EXCEPT ![u] = Nothing]
    /\ UNCHANGED <<queue, worker, wkOthers>>

\* spawn, up to the call of from_object_path
spawn(w, path_id) ==
    LET entry == get(path_id)
    IN  /\ cache' = IF entry = Nothing
                    THEN setex(path_id, expires_in, spawn_status_dict(path_id))
                    ELSE cache
        /\ worker' = [worker EXCEPT ![w] =
                        IF should_load(entry)
                        THEN [pc |-> "from_object_path", uuid5 |-> path_id,
                              status_dict |-> Nothing, seen |-> entry]
                        ELSE Consuming]

\* load_object raises KeyError when the key is gone, and otherwise unpickles
\* the cache client in place of the entry it has read, which raises
\* TypeError: get_zarr_chunk never gets to its setex
get_zarr_chunk(w, path_id) ==
    /\ worker' = [worker EXCEPT ![w] = Dead]
    /\ UNCHANGED cache

\* rabbit_mq_callback: the worker takes the next message
rabbit_mq_callback(w) ==
    /\ worker[w].pc = "consuming"
    /\ queue.msgs # <<>>
    /\ queue' = [queue EXCEPT !.msgs = Tail(queue.msgs)]
    /\ LET message == Head(queue.msgs)
       IN  CASE message.kind = "uri" -> spawn(w, message.uuid5)
             [] message.kind = "chunk" -> get_zarr_chunk(w, message.uuid5)
             [] OTHER -> UNCHANGED <<cache, worker>>
    /\ UNCHANGED wkOthers

\* from_object_path, lines 196-205: the entry is read again, and stored
\* with status 3; cloudpickle.loads(None) raises when the entry is gone
from_object_path(w) ==
    /\ worker[w].pc = "from_object_path"
    /\ LET path_id == worker[w].uuid5
           entry == get(path_id)
       IN  IF entry = Nothing
           THEN /\ worker' = [worker EXCEPT ![w] = Dead]
                /\ UNCHANGED cache
           ELSE LET status_dict == [from_dict(entry) EXCEPT
                                        !.status = IN_PROGRESS]
                IN  /\ cache' = setex(path_id, expires_in, status_dict)
                    /\ worker' = [worker EXCEPT ![w] =
                                    [pc |-> "try", uuid5 |-> path_id,
                                     status_dict |-> status_dict,
                                     seen |-> worker[w].seen]]
    /\ UNCHANGED <<queue, wkOthers>>

\* from_object_path, lines 207-214: the dataset is read
Loaded(w) ==
    /\ worker[w].pc = "try"
    /\ worker' = [worker EXCEPT ![w] =
                    [@ EXCEPT !.pc = "store",
                        !.status_dict = loaded(@, worker[w].uuid5)]]
    /\ UNCHANGED <<cache, queue, wkOthers>>

\* from_object_path, lines 215-218: load_data, create_zmetadata or
\* jsonify_zmetadata raises
LoadRaises(w) ==
    /\ worker[w].pc = "try"
    /\ \E error \in ErrorTexts :
        worker' = [worker EXCEPT ![w] =
                    [@ EXCEPT !.pc = "store",
                        !.status_dict = failed(@, error)]]
    /\ UNCHANGED <<cache, queue, wkOthers>>

\* from_object_path, lines 219-223: the result is pickled and stored
Store(w) ==
    /\ worker[w].pc = "store"
    /\ cache' = setex(worker[w].uuid5, expires_in, worker[w].status_dict)
    /\ worker' = [worker EXCEPT ![w] = Consuming]
    /\ UNCHANGED <<queue, wkOthers>>

\* from_object_path, lines 219-223: cloudpickle.dumps or setex raises (a
\* dataset that holds a lock or an open handle, a cache that is down);
\* nothing catches it
StoreRaises(w) ==
    /\ worker[w].pc = "store"
    /\ worker' = [worker EXCEPT ![w] = Dead]
    /\ UNCHANGED <<cache, queue, wkOthers>>

WorkerInit ==
    /\ solr = InitIndex
    /\ mongo = {}
    /\ req = [s \in Slots |-> Idle]
    /\ nops = 0
    /\ nfail = 0
    /\ log = {}
    /\ last = Nothing
    /\ history = <<>>
    /\ corpus = [n |-> 0, kind |-> "same"]
    /\ stream = [pc |-> "none"]
    /\ cache = [u \in Uuids |-> Nothing]
    /\ queue = [msgs |-> <<>>, sent |-> 0]
    /\ worker = [w \in Workers |-> Consuming]
    /\ load = NoLoad
    /\ bus = <<>>
    /\ served = {}
    /\ auth = NoAuth(<<>>)
    /\ areq = [r \in AuthSlots |-> NoRequest]
    /\ export = NoExport
    /\ compiled = NoFilter
    /\ embedded = Nothing
    /\ translated = Nothing
    /\ vreq = Nothing
    /\ tsel = Nothing
    /\ chunk = Nothing
    /\ stats = Nothing
    /\ shard = Nothing
    /\ legacy = Nothing

WorkerNext ==
    \/ Deliver
    \/ Expire
    \/ \E w \in Workers :
        \/ rabbit_mq_callback(w) \/ from_object_path(w)
        \/ Loaded(w) \/ LoadRaises(w) \/ Store(w) \/ StoreRaises(w)

SpecWorker == WorkerInit /\ [][WorkerNext]_vars

(***************************************************************************)
(* Properties of Part III, checked under SpecWorker.                       *)
(***************************************************************************)
Stored(u) == cache[u] # Nothing

\* C11: in every load-status record of the cache, status OK comes with meta
\* and json_meta that are not None, and status FAILED comes with a reason
\* that is not the empty string.
C11_StatusRecordComplete ==
    \A u \in Uuids : Stored(u) =>
        /\ get(u).status = OK =>
              (get(u).meta # Nothing /\ get(u).json_meta # Nothing)
        /\ get(u).status = FAILED => get(u).reason # <<>>

\* C12: a record is at IN_PROGRESS only while a worker is loading that
\* dataset or is about to store its result: no job is left at IN_PROGRESS.
C12_NeverLeftInProgress ==
    \A u \in Uuids : (Stored(u) /\ get(u).status = IN_PROGRESS) =>
        \E w \in Workers :
            worker[w].uuid5 = u /\ worker[w].pc \in {"try", "store"}

\* a worker takes the uri message of uuid u from the head of the queue
UriTaken(u) ==
    /\ queue.msgs # <<>>
    /\ Head(queue.msgs) = [kind |-> "uri", uuid5 |-> u]
    /\ queue' = [queue EXCEPT !.msgs = Tail(queue.msgs)]

\* that worker goes on to load the dataset of u
GoesToLoad(u) ==
    \E w \in Workers :
        /\ worker[w].pc = "consuming"
        /\ worker'[w].pc = "from_object_path"
        /\ worker'[w].uuid5 = u

\* the slot of u stays as it is and no worker loads
LeftAsItIs(u) == cache'[u] = cache[u] /\ worker' = worker

\* the worker that goes on to load u stores the slot as IN_PROGRESS with
\* its time to live, when the slot is still there
Advances(u) ==
    \A w \in Workers :
        (/\ worker[w].pc = "from_object_path"
         /\ worker[w].uuid5 = u
         /\ worker'[w] # worker[w]
         /\ Stored(u)) =>
            /\ worker'[w].pc = "try"
            /\ cache'[u] # Nothing
            /\ cache'[u].value.status = IN_PROGRESS
            /\ cache'[u].ex = expires_in

ldOthers == <<udVars, corpus, stream, wkVars, auVars, inVars, fqVars,
    esVars,
    trVars,
    vrVars,
    tsVars,
    ckVars,
    sqVars,
    shVars,
    lgVars>>

\* the uris a search may return
LoadUris == {FileA, FileB, FileC}

UriLists == UNION {[1..n -> LoadUris] : n \in 0..MaxUris}

\* the lines before and after the results of an intake catalogue
intake_header == <<"{", "esmcat", ",\n   \"catalog_dict\": [">>
intake_footer == <<"\n   ]\n}">>

Envelope(text) == [uri |-> <<>>, published |-> FALSE, text |-> text]

\* GET /load: zarr_response up to the first result
LoadStart ==
    /\ load.pc = "none"
    /\ load.n < MaxLoads
    /\ \E catalogue_type \in {"none", "intake"}, uris \in UriLists :
        load' = [pc |-> IF uris = <<>> THEN "closing" ELSE "publish",
                 n |-> load.n + 1, catalogue_type |-> catalogue_type,
                 uris |-> uris, k |-> 1, num |-> 1, published |-> FALSE,
                 lines |-> IF catalogue_type = "intake"
                           THEN <<Envelope(intake_header)>> ELSE <<>>]
    /\ UNCHANGED <<bus, served, ldOthers>>

\* the job of result k is published to the data-portal channel
Publish ==
    /\ load.pc = "publish"
    /\ LET uri == load.uris[load.k]
       IN  bus' = Append(bus, job_message(uri, uuid5(NAMESPACE_URL, uri)))
    /\ load' = [load EXCEPT !.pc = "yield", !.published = TRUE]
    /\ UNCHANGED <<served, ldOthers>>

\* create_redis_connection or publish raises
PublishRaises ==
    /\ load.pc = "publish"
    /\ load' = [load EXCEPT !.pc = "yield", !.published = FALSE]
    /\ UNCHANGED <<bus, served, ldOthers>>

\* the line of result k is streamed
Yield ==
    /\ load.pc = "yield"
    /\ LET uri == load.uris[load.k]
           uuid == uuid5(NAMESPACE_URL, uri)
           text == zarr_line(load, uuid)
       IN  /\ load' = [load EXCEPT
                         !.pc = IF load.k = Len(load.uris)
                                THEN "closing" ELSE "publish",
                         !.k = @ + 1,
                         !.num = IF load.published THEN @ + 1 ELSE @,
                         !.lines = Append(@, [uri |-> uri,
                                              published |-> load.published,
                                              text |-> text])]
           /\ served' = IF text = error_line THEN served
                        ELSE served \cup {[uri |-> uri, url |-> zarr_url(uuid),
                                           request |-> load.n]}
    /\ UNCHANGED <<bus, ldOthers>>

\* the generator ends
Close ==
    /\ load.pc = "closing"
    /\ load' = [load EXCEPT
                  !.pc = "none",
                  !.lines = IF load.catalogue_type = "intake"
                            THEN Append(@, Envelope(intake_footer)) ELSE @]
    /\ UNCHANGED <<bus, served, ldOthers>>

LoadInit ==
    /\ solr = InitIndex
    /\ mongo = {}
    /\ req = [s \in Slots |-> Idle]
    /\ nops = 0
    /\ nfail = 0
    /\ log = {}
    /\ last = Nothing
    /\ history = <<>>
    /\ corpus = [n |-> 0, kind |-> "same"]
    /\ stream = [pc |-> "none"]
    /\ cache = [u \in Uuids |-> Nothing]
    /\ queue = [msgs |-> <<>>, sent |-> 0]
    /\ worker = [w \in Workers |-> Consuming]
    /\ load = NoLoad
    /\ bus = <<>>
    /\ served = {}
    /\ auth = NoAuth(<<>>)
    /\ areq = [r \in AuthSlots |-> NoRequest]
    /\ export = NoExport
    /\ compiled = NoFilter
    /\ embedded = Nothing
    /\ translated = Nothing
    /\ vreq = Nothing
    /\ tsel = Nothing
    /\ chunk = Nothing
    /\ stats = Nothing
    /\ shard = Nothing
    /\ legacy = Nothing

LoadNext == LoadStart \/ Publish \/ PublishRaises \/ Yield \/ Close

SpecLoad == LoadInit /\ [][LoadNext]_vars

(***************************************************************************)
(* Properties of Part IV, checked under SpecLoad.                          *)
(***************************************************************************)
Contains(text, part) ==
    \E i \in 1..(Len(text) - Len(part) + 1) :
        SubSeq(text, i, i + Len(part) - 1) = part

ResultLines == {k \in 1..Len(load.lines) : load.lines[k].uri # <<>>}

\* C14: a line of a load response that is not the error line carries the
\* chunk-store URL of its uri, and the job message of that uri, with the
\* uuid of the URL, was published on the channel before; the line of a uri
\* whose publish failed is the error line.
C14_UrlOnlyAfterPublish ==
    \A k \in ResultLines :
        LET line == load.lines[k]
        IN  /\ line.text # error_line =>
                 /\ line.published
                 /\ \E i \in 1..Len(bus) :
                      /\ bus[i].uri.path = line.uri
                      /\ Contains(line.text, zarr_url(bus[i].uri.uuid))
            /\ ~line.published => line.text = error_line

\* a response holds the URL of a uri whose job was published and the error
\* line of a uri whose publish failed
C14_Witness ==
    /\ \E k \in ResultLines :
        load.lines[k].published /\ Contains(load.lines[k].text, api_path)
    /\ \E k \in ResultLines :
        ~load.lines[k].published /\ load.lines[k].text = error_line

auOthers == <<udVars, corpus, stream, wkVars, ldVars, inVars, fqVars,
    esVars,
    trVars,
    vrVars,
    tsVars,
    ckVars,
    sqVars,
    shVars,
    lgVars>>

\* a protected request arrives
Arrive(r) ==
    /\ areq[r].pc \in {"none", "done"}
    /\ auth.n < MaxAuthReqs
    /\ areq' = [areq EXCEPT ![r] = [NoRequest EXCEPT !.pc = "waiting"]]
    /\ auth' = [auth EXCEPT !.n = @ + 1]
    /\ UNCHANGED auOthers

\* _ensure_auth_initialized: the lock is taken; with a validator, or without
\* a discovery URL, the request goes on to its answer at once
Enter(r) ==
    /\ areq[r].pc = "waiting"
    /\ lock_free(auth.lock)
    /\ IF auth._auth # Nothing
       THEN /\ areq' = [areq EXCEPT ![r] =
                          [pc |-> "done", probe |-> "none",
                           status |-> dependency(auth._auth)]]
            /\ UNCHANGED auth
       ELSE IF auth.discovery_url = <<>>
       THEN /\ areq' = [areq EXCEPT ![r] =
                          [pc |-> "done", probe |-> "no_url",
                           status |-> dependency(auth._auth)]]
            /\ UNCHANGED auth
       ELSE /\ areq' = [areq EXCEPT ![r] = [@ EXCEPT !.pc = "probing"]]
            /\ auth' = [auth EXCEPT !.lock = r]
    /\ UNCHANGED auOthers

\* the discovery document is answered, or not: the validator is built on
\* True, the lock is left, and the request is answered
Probed(r) ==
    /\ areq[r].pc = "probing"
    /\ \E outcome \in ProbeOutcomes :
        LET available == check_server_available(outcome)
            _auth == IF available = "True"
                     THEN [validator |-> auth.built + 1] ELSE auth._auth
        IN  /\ auth' = [auth EXCEPT
                          !._auth = _auth,
                          !.built = IF available = "True" THEN @ + 1 ELSE @,
                          !.lock = 0]
            /\ areq' = [areq EXCEPT ![r] =
                          [pc |-> "done", probe |-> outcome,
                           status |-> IF available = "raises" THEN 500
                                      ELSE dependency(_auth)]]
    /\ UNCHANGED auOthers

AuthInit ==
    /\ solr = InitIndex
    /\ mongo = {}
    /\ req = [s \in Slots |-> Idle]
    /\ nops = 0
    /\ nfail = 0
    /\ log = {}
    /\ last = Nothing
    /\ history = <<>>
    /\ corpus = [n |-> 0, kind |-> "same"]
    /\ stream = [pc |-> "none"]
    /\ cache = [u \in Uuids |-> Nothing]
    /\ queue = [msgs |-> <<>>, sent |-> 0]
    /\ worker = [w \in Workers |-> Consuming]
    /\ load = NoLoad
    /\ bus = <<>>
    /\ served = {}
    /\ \E discovery_url \in {<<>>, <<"http", ":", "/", "/", "issuer">>} :
          auth = NoAuth(discovery_url)
    /\ areq = [r \in AuthSlots |-> NoRequest]
    /\ export = NoExport
    /\ compiled = NoFilter
    /\ embedded = Nothing
    /\ translated = Nothing
    /\ vreq = Nothing
    /\ tsel = Nothing
    /\ chunk = Nothing
    /\ stats = Nothing
    /\ shard = Nothing
    /\ legacy = Nothing

AuthNext == \E r \in AuthSlots : Arrive(r) \/ Enter(r) \/ Probed(r)

SpecAuth == AuthInit /\ [][AuthNext]_vars

(***************************************************************************)
(* Properties of Part V, checked under SpecAuth.                           *)
(***************************************************************************)
\* C16: a request whose probe of the discovery URL failed (no URL, a
\* connection error, a timeout or an answer other than 200) is answered with
\* 503 and leaves the validator as it was; the failure is not remembered:
\* while there is no validator, no request is answered without a probe.
C16_FailedProbeGives503 ==
    /\ \A r \in AuthSlots :
        (areq[r].pc = "done" /\ areq[r].probe \notin {"none", "200"}) =>
            areq[r].status = 503
    /\ \A r \in AuthSlots :
        (areq[r].pc = "done" /\ areq[r].probe = "none") =>
            auth._auth # Nothing

\* C17: the validator is built at most once, and once built it is never
\* replaced or reset, however the protected requests interleave.
C17_ValidatorBuiltOnce ==
    /\ [](auth.built <= 1)
    /\ [][auth._auth # Nothing => auth'._auth = auth._auth]_vars

\* two requests were waiting while there was no validator, one of them has
\* built it and the other one was answered by it without a probe
C17_Witness ==
    /\ auth.built = 1
    /\ auth._auth # Nothing
    /\ \E r, q \in AuthSlots :
        /\ r # q
        /\ areq[r].pc = "done" /\ areq[r].probe = "200"
        /\ areq[q].pc = "done" /\ areq[q].probe = "none"
        /\ auth.n = 2

(***************************************************************************)
(* Part VI.  One intake-catalogue export over an unchanging corpus.  The   *)
(* backend refuses a cursor request that carries a start offset other than *)
(* 0; the first request of the export carries no cursor.                   *)
(***************************************************************************)
inOthers == <<udVars, corpus, stream, wkVars, ldVars, auVars,
              fqVars,
    esVars,
    trVars,
    vrVars,
    tsVars,
    ckVars,
    sqVars,
    shVars,
    lgVars>>

\* the values of max_results a caller hands in; -1 is the default
MaxResultsInputs == {-1, 0, 1, 100, 300}

\* GET /intake_catalogue/{flavour}/{uniq_key}: the parameters are taken
ExportStart ==
    /\ export.pc = "none"
    /\ \E uniq_key \in uniq_keys, start \in {0, 1},
          max_results \in MaxResultsInputs :
        export' = [export EXCEPT !.pc = "init", !.uniq_key = uniq_key,
                                 !.start = start,
                                 !.max_results = max_results]
    /\ UNCHANGED inOthers

\* the route after init_intake_catalogue and store_results: 404, 413, or
\* the streaming response, whose generator yields the header and
\* ',\n   "catalog_dict": '
Answered(total_count) ==
    LET status == intake_status(total_count, export.max_results)
    IN  [export EXCEPT
           !.total_count = total_count,
           !.stored = total_count # 0,
           !.status = status,
           !.pc = IF status = 200 THEN "paging" ELSE "done",
           !.pieces = IF status = 200
                      THEN catalogue_header
                           \o <<Tok(","), Tok("\"catalog_dict\":")>>
                      ELSE <<>>]

\* init_intake_catalogue: the backend answers with numFound
ExportInit ==
    /\ export.pc = "init"
    /\ export' = Answered(corpus.n)
    /\ UNCHANGED inOthers

\* init_intake_catalogue: the backend answers with an error status, and
\* search = {}
ExportInitRejected ==
    /\ export.pc = "init"
    /\ export' = Answered(0)
    /\ UNCHANGED inOthers

\* init_intake_catalogue: the backend cannot be reached, _session_get
\* raises 503
ExportUnreachable ==
    /\ export.pc \in {"init", "paging"}
    /\ export' = [export EXCEPT
                    !.pc = "done", !.aborted = TRUE,
                    !.status = IF export.pc = "init" THEN 503 ELSE @]
    /\ UNCHANGED inOthers

\* _iterintake, one iteration of the loop on the docs and the cursor of
\* the answer; Solr.intake_catalogue yields the closing after the last
iterintake(docs, nextCursorMark, results_empty) ==
    LET done == nextCursorMark = export.cursorMark \/ results_empty
    IN  [export EXCEPT
           !.pieces = @ \o iterintake_page(docs, export.uniq_key, export.init)
                        \o (IF done THEN <<Tok("]"), Tok("}")>> ELSE <<>>),
           !.init = @ /\ docs = <<>>,
           !.cursorMark = IF done THEN @ ELSE nextCursorMark,
           !.rejected = @ \/ results_empty,
           !.pc = IF done THEN "done" ELSE "paging"]

\* one page: the GET is answered with 200
ExportPage ==
    /\ export.pc = "paging"
    /\ export.start = 0
    /\ \E sorted \in {Sorted(corpus, sort_field(export.uniq_key))} :
        \E results \in {SolrPage(sorted, sort_field(export.uniq_key),
                                 export.cursorMark, batch_size)} :
            export' = iterintake(results.docs, results.nextCursorMark, FALSE)
    /\ UNCHANGED inOthers

\* one page: the GET is answered with an error status, results = {}
ExportPageRejected ==
    /\ export.pc = "paging"
    /\ export' = iterintake(rejected_docs, StartMark, TRUE)
    /\ UNCHANGED inOthers

IntakeInit ==
    /\ solr = InitIndex
    /\ mongo = {}
    /\ req = [s \in Slots |-> Idle]
    /\ nops = 0
    /\ nfail = 0
    /\ log = {}
    /\ last = Nothing
    /\ history = <<>>
    /\ \E n \in CorpusSizes, kind \in {"same", "mixed"} :
          corpus = [n |-> n, kind |-> kind]
    /\ stream = [pc |-> "none"]
    /\ cache = [u \in Uuids |-> Nothing]
    /\ queue = [msgs |-> <<>>, sent |-> 0]
    /\ worker = [w \in Workers |-> Consuming]
    /\ load = NoLoad
    /\ bus = <<>>
    /\ served = {}
    /\ auth = NoAuth(<<>>)
    /\ areq = [r \in AuthSlots |-> NoRequest]
    /\ export = NoExport
    /\ compiled = NoFilter
    /\ embedded = Nothing
    /\ translated = Nothing
    /\ vreq = Nothing
    /\ tsel = Nothing
    /\ chunk = Nothing
    /\ stats = Nothing
    /\ shard = Nothing
    /\ legacy = Nothing

IntakeNext ==
    \/ ExportStart \/ ExportInit \/ ExportInitRejected \/ ExportUnreachable
    \/ ExportPage \/ ExportPageRejected

SpecIntake == IntakeInit /\ [][IntakeNext]_vars

(***************************************************************************)
(* Properties of Part VI, checked under SpecIntake.                        *)
(***************************************************************************)
Exported == export.pc = "done" /\ ~export.aborted

\* C18, as stated: an export is answered with 404 when no record matches
\* and with 413 when more records match than max_results says, and in both
\* cases nothing of a catalogue is streamed.
C18_NotFoundOrTooLarge ==
    Exported =>
        /\ export.total_count = 0 => export.status = 404
        /\ (export.total_count # 0
            /\ export.total_count > export.max_results) =>
              export.status = 413
        /\ export.status \in {404, 413} => export.pieces = <<>>

\* C18, as the code has it: 404 when no record matches; 413 when
\* max_results is positive and more records match than it says; with a
\* max_results of 0 or less there is no limit and the catalogue is streamed;
\* with 404 and 413 nothing of a catalogue is streamed.
C18_TooLargeOverPositiveLimit ==
    Exported =>
        /\ export.total_count = 0 => export.status = 404
        /\ (export.total_count # 0 /\ export.max_results > 0
            /\ export.total_count > export.max_results) =>
              export.status = 413
        /\ (export.total_count # 0
            /\ (export.max_results <= 0
                \/ export.total_count <= export.max_results)) =>
              (export.status = 200 /\ export.pieces # <<>>)
        /\ export.status \in {404, 413} => export.pieces = <<>>

\* the export of a corpus of 300 records with max_results = 100 was
\* answered with 413 and has streamed nothing
C18_Witness ==
    /\ Exported
    /\ export.total_count = 2 * batch_size
    /\ export.max_results = 100
    /\ export.status = 413
    /\ export.pieces = <<>>

\* the tokens between the bracket that opens catalog_dict and the one that
\* closes it
Body(p) == SubSeq(p, 6, Len(p) - 2)

\* one JSON object whose last member is the array catalog_dict of entries
\* divided by commas
WellFormed(p) ==
    /\ Len(p) >= 7
    /\ p[1].t = "{" /\ p[2].t = "members" /\ p[3].t = ","
    /\ p[4].t = "\"catalog_dict\":" /\ p[5].t = "["
    /\ p[Len(p) - 1].t = "]" /\ p[Len(p)].t = "}"
    /\ Len(Body(p)) = 0 \/ Len(Body(p)) % 2 = 1
    /\ \A i \in 1..Len(Body(p)) :
          Body(p)[i].t = IF i % 2 = 1 THEN "entry" ELSE ","

\* the entries of catalog_dict, in their order
Entries(p) ==
    LET b == Body(p)
    IN  [k \in 1..((Len(b) + 1) \div 2) |-> b[2 * k - 1]]

\* C19: for a corpus of N >= 1 records, what a streamed export has yielded
\* when it ends is one well-formed JSON object, and its catalog_dict holds
\* N entries, entry k being the one of the k-th matching record.
C19_OneObjectOfNEntries ==
    (Exported /\ export.status = 200 /\ corpus.n >= 1
     /\ export.total_count = corpus.n) =>
        /\ WellFormed(export.pieces)
        /\ Len(Entries(export.pieces)) = corpus.n
        /\ \E sorted \in {Sorted(corpus, sort_field(export.uniq_key))} :
              \A k \in 1..corpus.n :
                  Entries(export.pieces)[k] =
                      process_catalogue_result(sorted[k], export.uniq_key)

(***************************************************************************)
(* Part VII: the filter query of a search.  Solr.__init__ keeps the facets *)
(* of the request, _get_url compiles them with _join_facet_queries.        *)
(* Facet values are sequences of characters, facet names sequences of      *)
(* their parts.                                                            *)
(***************************************************************************)
fqOthers == <<udVars, corpus, stream, wkVars, ldVars, auVars, inVars,
    esVars,
    trVars,
    vrVars,
    tsVars,
    ckVars,
    sqVars,
    shVars,
    lgVars>>

\* the facet names of the requests
FacetKeys ==
    { <<"variable">>, <<"variable", "_not_">>, <<"file">>,
      <<"file", "_not_">> }

\* the values of the requests
FacetValues ==
    { <<"t">>, <<"T">>, <<"!", "t">>, <<"-", "p">>,
      <<"n", "o", "t", " ", "t">>, <<"N", "O", "T", " ", "p">>,
      <<"a", "/", "b">>, <<"-">> }

\* the lists of 1..MaxValues values
ValueLists ==
    UNION { [1..n -> FacetValues] : n \in 1..MaxValues }

\* str.startswith(prefix)
startswith(s, prefix) ==
    Len(s) >= Len(prefix) /\ SubSeq(s, 1, Len(prefix)) = prefix

\* sep.join(values)
RECURSIVE Join(_, _)
Join(sep, values) ==
    IF values = <<>> THEN <<>>
    ELSE IF Len(values) = 1 THEN values[1]
    ELSE values[1] \o sep \o Join(sep, Tail(values))

\* _join_facet_queries, the body of the loop: the list the value is
\* appended to, and what is appended
append_to(key, facet) ==
    LET search_value ==
            IF \A u \in uniq_keys : key # Str(u) THEN Lower(facet) ELSE facet
    IN  IF startswith(Lower(search_value), <<"n", "o", "t", " ">>)
        THEN [negative |-> TRUE,
              value |-> SubSeq(search_value, 5, Len(search_value))]
        ELSE IF search_value[1] \in {"!", "-"}
        THEN [negative |-> TRUE, value |-> Tail(search_value)]
        ELSE IF Contains(key, <<"_not_">>)
        THEN [negative |-> TRUE, value |-> search_value]
        ELSE [negative |-> FALSE, value |-> search_value]

\* _join_facet_queries: <<search_value_pos, search_value_neg>>
join_facet_queries(key, facets) ==
    LET appended == [i \in 1..Len(facets) |-> append_to(key, facets[i])]
        IsPos(a) == ~a.negative
        IsNeg(a) == a.negative
        positive == [i \in 1..Len(SelectSeq(appended, IsPos)) |->
                        SelectSeq(appended, IsPos)[i].value]
        negative == [i \in 1..Len(SelectSeq(appended, IsNeg)) |->
                        SelectSeq(appended, IsNeg)[i].value]
    IN  << EscapeFrom(Join(<<" ", "OR", " ">>, positive), 1),
           EscapeFrom(Join(<<" ", "OR", " ">>, negative), 1) >>

\* _get_url: the clauses appended to query for one facet name
get_url_query(key, facets) ==
    LET joined == join_facet_queries(key, facets)
        name == Replace(Lower(key), <<"_not_">>, <<>>)
    IN  (IF joined[1] # <<>>
         THEN << name \o <<":", "(">> \o joined[1] \o <<")">> >>
         ELSE <<>>)
        \o
        (IF joined[2] # <<>>
         THEN << <<"-">> \o name \o <<":", "(">> \o joined[2] \o <<")">> >>
         ELSE <<>>)

\* Solr.__init__: self.facets holds the values given for a facet name
FacetsGiven ==
    /\ compiled.pc = "idle"
    /\ \E key \in FacetKeys, facets \in ValueLists :
          compiled' = [NoFilter EXCEPT !.pc = "validated", !.key = key,
                                       !.facets = facets]
    /\ UNCHANGED fqOthers

\* _get_url: joined_query = " AND ".join(query) if query else "*:*"
get_url ==
    /\ compiled.pc = "validated"
    /\ \E query \in {get_url_query(compiled.key, compiled.facets)} :
          compiled' = [compiled EXCEPT
              !.pc = "compiled",
              !.query = query,
              !.joined_query =
                  IF query # <<>> THEN Join(<<" ", "AND", " ">>, query)
                  ELSE <<"*", ":", "*">>]
    /\ UNCHANGED fqOthers

FacetInit ==
    /\ solr = InitIndex
    /\ mongo = {}
    /\ req = [s \in Slots |-> Idle]
    /\ nops = 0
    /\ nfail = 0
    /\ log = {}
    /\ last = Nothing
    /\ history = <<>>
    /\ corpus = [n |-> 0, kind |-> "same"]
    /\ stream = [pc |-> "none"]
    /\ cache = [u \in Uuids |-> Nothing]
    /\ queue = [msgs |-> <<>>, sent |-> 0]
    /\ worker = [w \in Workers |-> Consuming]
    /\ load = NoLoad
    /\ bus = <<>>
    /\ served = {}
    /\ auth = NoAuth(<<>>)
    /\ areq = [r \in AuthSlots |-> NoRequest]
    /\ export = NoExport
    /\ compiled = NoFilter
    /\ embedded = Nothing
    /\ translated = Nothing
    /\ vreq = Nothing
    /\ tsel = Nothing
    /\ chunk = Nothing
    /\ stats = Nothing
    /\ shard = Nothing
    /\ legacy = Nothing

FacetNext ==
    \/ FacetsGiven
    \/ get_url

SpecFacets == FacetInit /\ [][FacetNext]_vars

\* the values the claim puts into the negative set
IsNegated(key, facet) ==
    \/ facet[1] \in {"!", "-"}
    \/ startswith(Lower(facet), <<"n", "o", "t", " ">>)
    \/ Contains(key, <<"_not_">>)

\* a value as the filter shows it: without its negation marker, lower-cased
\* unless the name is a uniq_key, special characters escaped
Shown(key, facet) ==
    LET bare == IF startswith(Lower(facet), <<"n", "o", "t", " ">>)
                THEN SubSeq(facet, 5, Len(facet))
                ELSE IF facet[1] \in {"!", "-"} THEN Tail(facet)
                ELSE facet
    IN  EscapeFrom(IF \A u \in uniq_keys : key # Str(u) THEN Lower(bare)
                   ELSE bare, 1)

\* the positive set P and the negative set N of the claim, in the order of
\* the values
SetP(key, facets) ==
    LET Pos(f) == ~IsNegated(key, f)
    IN  [i \in 1..Len(SelectSeq(facets, Pos)) |->
            Shown(key, SelectSeq(facets, Pos)[i])]

SetN(key, facets) ==
    LET Neg(f) == IsNegated(key, f)
    IN  [i \in 1..Len(SelectSeq(facets, Neg)) |->
            Shown(key, SelectSeq(facets, Neg)[i])]

\* k:(v1 OR v2 ...)
Clause(k, values) ==
    k \o <<":", "(">> \o Join(<<" ", "OR", " ">>, values) \o <<")">>

\* C20: the filter compiled for a facet name k with values V holds the
\* clause k:(p1 OR p2 ...) exactly when the positive set P is not empty and
\* the clause -k:(n1 OR n2 ...) exactly when the negative set N is not
\* empty, and no other clause; the values are shown without their negation
\* marker and k without "_not_".
C20_ClausesOfPositiveAndNegative ==
    compiled.pc = "compiled" =>
        LET k == Replace(compiled.key, <<"_not_">>, <<>>)
            P == SetP(compiled.key, compiled.facets)
            N == SetN(compiled.key, compiled.facets)
        IN  compiled.query =
                (IF P # <<>> THEN <<Clause(k, P)>> ELSE <<>>)
                \o (IF N # <<>> THEN << <<"-">> \o Clause(k, N) >> ELSE <<>>)

(***************************************************************************)
(* Part VIII: the three places that embed a value into a backend query:    *)
(* the search filter of _get_url, the lookup of _is_query_duplicate and    *)
(* the delete-by-query of _delete_from_solr.                               *)
(***************************************************************************)
esOthers == <<udVars, corpus, stream, wkVars, ldVars, auVars, inVars, fqVars,
    trVars,
    vrVars,
    tsVars,
    ckVars,
    sqVars,
    shVars,
    lgVars>>

\* the characters of the values
EscChars == {"a", "+", "&", "|", "\"", "\\", ":"}

\* the values of 1..MaxChars characters
EscValues == UNION { [1..n -> EscChars] : n \in 1..MaxChars }

\* _get_url: the filter of the facet file with one value, which is not
\* lower-cased and carries no negation marker
EmbedFilter ==
    /\ embedded = Nothing
    /\ translated = Nothing
    /\ vreq = Nothing
    /\ tsel = Nothing
    /\ chunk = Nothing
    /\ stats = Nothing
    /\ shard = Nothing
    /\ legacy = Nothing
    /\ \E value \in EscValues :
          embedded' = [kind |-> "filter", value |-> value,
                       q |-> get_url_query(<<"file">>, <<value>>)[1]]
    /\ UNCHANGED esOthers

\* _is_query_duplicate: the lookup of a record whose uri is its file
EmbedLookup ==
    /\ embedded = Nothing
    /\ translated = Nothing
    /\ vreq = Nothing
    /\ tsel = Nothing
    /\ chunk = Nothing
    /\ stats = Nothing
    /\ shard = Nothing
    /\ legacy = Nothing
    /\ \E value \in EscValues :
          embedded' = [kind |-> "lookup", value |-> value,
                       q |-> LookupQuery(value, value)]
    /\ UNCHANGED esOthers

\* _delete_from_solr: the query of the search key file
EmbedDelete ==
    /\ embedded = Nothing
    /\ translated = Nothing
    /\ vreq = Nothing
    /\ tsel = Nothing
    /\ chunk = Nothing
    /\ stats = Nothing
    /\ shard = Nothing
    /\ legacy = Nothing
    /\ \E value \in EscValues :
          embedded' = [kind |-> "delete", value |-> value,
                       q |-> DeleteQuery(<< <<"file", value>> >>)]
    /\ UNCHANGED esOthers

EscapeInit ==
    /\ solr = InitIndex
    /\ mongo = {}
    /\ req = [s \in Slots |-> Idle]
    /\ nops = 0
    /\ nfail = 0
    /\ log = {}
    /\ last = Nothing
    /\ history = <<>>
    /\ corpus = [n |-> 0, kind |-> "same"]
    /\ stream = [pc |-> "none"]
    /\ cache = [u \in Uuids |-> Nothing]
    /\ queue = [msgs |-> <<>>, sent |-> 0]
    /\ worker = [w \in Workers |-> Consuming]
    /\ load = NoLoad
    /\ bus = <<>>
    /\ served = {}
    /\ auth = NoAuth(<<>>)
    /\ areq = [r \in AuthSlots |-> NoRequest]
    /\ export = NoExport
    /\ compiled = NoFilter
    /\ embedded = Nothing
    /\ translated = Nothing
    /\ vreq = Nothing
    /\ tsel = Nothing
    /\ chunk = Nothing
    /\ stats = Nothing
    /\ shard = Nothing
    /\ legacy = Nothing

EscapeNext ==
    \/ EmbedFilter
    \/ EmbedLookup
    \/ EmbedDelete

SpecEscape == EscapeInit /\ [][EscapeNext]_vars

\* a value with one backslash put before each occurrence of the special
\* characters and of the double quote, read from left to right
RECURSIVE WithBackslashes(_)
WithBackslashes(value) ==
    IF value = <<>> THEN <<>>
    ELSE IF \E k \in 1..Len(escape_chars) :
                Len(escape_chars[k]) = 2 /\ startswith(value, escape_chars[k])
    THEN <<"\\">> \o SubSeq(value, 1, 2)
         \o WithBackslashes(SubSeq(value, 3, Len(value)))
    ELSE IF \/ \E k \in 1..Len(escape_chars) : escape_chars[k] = <<Head(value)>>
            \/ Head(value) = "\""
    THEN <<"\\", Head(value)>> \o WithBackslashes(Tail(value))
    ELSE <<Head(value)>> \o WithBackslashes(Tail(value))

\* C21: in each of the three queries the value appears with exactly one
\* backslash before each occurrence of + - && || ! ( ) { } [ ] ^ ~ : / and
\* of the double quote, and is otherwise unaltered.
C21_EverySpecialEscapedOnce ==
    /\ embedded.kind = "filter" =>
          embedded.q = <<"file", ":", "(">>
                       \o WithBackslashes(embedded.value) \o <<")">>
    /\ embedded.kind = "lookup" =>
          embedded.q = <<"uri", ":", "\"">>
                       \o WithBackslashes(embedded.value)
                       \o <<"\"", " ", "OR", " ", "file", ":", "\"">>
                       \o WithBackslashes(embedded.value) \o <<"\"">>
    /\ embedded.kind = "delete" =>
          embedded.q = <<"file", ":">> \o WithBackslashes(embedded.value)

(***************************************************************************)
(* Part IX: a facet name of a flavour's mapping is translated to the       *)
(* flavour and back.                                                       *)
(***************************************************************************)
trOthers == <<udVars, corpus, stream, wkVars, ldVars, auVars, inVars, fqVars, esVars,
    vrVars,
    tsVars,
    ckVars,
    sqVars,
    shVars,
    lgVars>>

\* the canonical name is translated to the flavour
Forward ==
    /\ translated = Nothing
    /\ vreq = Nothing
    /\ tsel = Nothing
    /\ chunk = Nothing
    /\ stats = Nothing
    /\ shard = Nothing
    /\ legacy = Nothing
    /\ \E k \in 1..Len(flavours), translate \in BOOLEAN :
          \E c \in dict_keys(forward_lookup(flavours[k])) :
              translated' =
                  [kind |-> "forward", flavour |-> flavours[k],
                   translate |-> translate, facet |-> c,
                   name |-> translate_facets(flavours[k], translate, c, FALSE),
                   back |-> ""]
    /\ UNCHANGED trOthers

\* the name of the flavour is translated back
Backward ==
    /\ translated.kind = "forward"
    /\ translated' =
          [translated EXCEPT
              !.kind = "backward",
              !.back = translate_facets(translated.flavour,
                                        translated.translate,
                                        translated.name, TRUE)]
    /\ UNCHANGED trOthers

TranslateInit ==
    /\ solr = InitIndex
    /\ mongo = {}
    /\ req = [s \in Slots |-> Idle]
    /\ nops = 0
    /\ nfail = 0
    /\ log = {}
    /\ last = Nothing
    /\ history = <<>>
    /\ corpus = [n |-> 0, kind |-> "same"]
    /\ stream = [pc |-> "none"]
    /\ cache = [u \in Uuids |-> Nothing]
    /\ queue = [msgs |-> <<>>, sent |-> 0]
    /\ worker = [w \in Workers |-> Consuming]
    /\ load = NoLoad
    /\ bus = <<>>
    /\ served = {}
    /\ auth = NoAuth(<<>>)
    /\ areq = [r \in AuthSlots |-> NoRequest]
    /\ export = NoExport
    /\ compiled = NoFilter
    /\ embedded = Nothing
    /\ translated = Nothing
    /\ vreq = Nothing
    /\ tsel = Nothing
    /\ chunk = Nothing
    /\ stats = Nothing
    /\ shard = Nothing
    /\ legacy = Nothing

TranslateNext ==
    \/ Forward
    \/ Backward

SpecTranslate == TranslateInit /\ [][TranslateNext]_vars

\* C23: a canonical facet of a flavour's mapping, translated to the flavour
\* and back, is the same facet again; no two canonical facets of a flavour
\* share their flavour-specific name.
C23_TranslationRoundTrip ==
    /\ translated.kind = "backward" => translated.back = translated.facet
    /\ translated.kind = "forward" =>
          \A i, j \in 1..Len(forward_lookup(translated.flavour)) :
              forward_lookup(translated.flavour)[i][2]
                  = forward_lookup(translated.flavour)[j][2] => i = j

\* the cmip6 name of model was translated back to model
C23_Witness ==
    /\ translated.kind = "backward"
    /\ translated.flavour = "cmip6"
    /\ translated.translate
    /\ translated.facet = "model"
    /\ translated.name = "source_id"
    /\ translated.back = "model"

(***************************************************************************)
(* Part X: Solr.validate_parameters.  The name of a query parameter is a   *)
(* sequence of its parts.                                                  *)
(***************************************************************************)
vrOthers == <<udVars, corpus, stream, wkVars, ldVars, auVars, inVars, fqVars, esVars, trVars,
    tsVars,
    ckVars,
    sqVars,
    shVars,
    lgVars>>

\* the names of the query parameters of the requests
ParamKeys ==
    { <<"variable">>, <<"variable_id">>, <<"Variable">>,
      <<"variable", "_not_">>, <<"source_id", "_NOT_">>, <<"model">>,
      <<"user">>, <<"time_select">>, <<"uri">>, <<"foo">> }

\* the queries of 1..MaxParams parameters
Queries == UNION { [1..n -> ParamKeys] : n \in 1..MaxParams }

\* validate_parameters: the test of one key of the query
key_refused(flavour, translate, key0) ==
    LET key == Replace(Lower(key0), <<"_not_">>, <<>>)
    IN  /\ \A f \in valid_facets(flavour, translate) : key # Str(f)
        /\ \A f \in {"time_select", "bbox_select", "stac_dynamic"}
                    \cup uniq_keys : key # Str(f)

\* Solr.validate_parameters: 422 for the first key refused, otherwise the
\* Solr object is built
validate_parameters ==
    /\ vreq = Nothing
    /\ tsel = Nothing
    /\ chunk = Nothing
    /\ stats = Nothing
    /\ shard = Nothing
    /\ legacy = Nothing
    /\ \E k \in 1..Len(flavours), translate \in BOOLEAN, query \in Queries :
          vreq' =
              [kind |-> IF \E i \in 1..Len(query) :
                              key_refused(flavours[k], translate, query[i])
                        THEN "rejected" ELSE "validated",
               flavour |-> flavours[k], translate |-> translate,
               query |-> query,
               status |-> IF \E i \in 1..Len(query) :
                              key_refused(flavours[k], translate, query[i])
                          THEN 422 ELSE 0,
               sent |-> 0]
    /\ UNCHANGED vrOthers

\* _session_get: the first request the Solr object sends to the backend
SessionGet ==
    /\ vreq.kind = "validated"
    /\ \E status \in {200, 503} :
          vreq' = [vreq EXCEPT !.kind = "answered", !.status = status,
                               !.sent = 1]
    /\ UNCHANGED vrOthers

ValidateInit ==
    /\ solr = InitIndex
    /\ mongo = {}
    /\ req = [s \in Slots |-> Idle]
    /\ nops = 0
    /\ nfail = 0
    /\ log = {}
    /\ last = Nothing
    /\ history = <<>>
    /\ corpus = [n |-> 0, kind |-> "same"]
    /\ stream = [pc |-> "none"]
    /\ cache = [u \in Uuids |-> Nothing]
    /\ queue = [msgs |-> <<>>, sent |-> 0]
    /\ worker = [w \in Workers |-> Consuming]
    /\ load = NoLoad
    /\ bus = <<>>
    /\ served = {}
    /\ auth = NoAuth(<<>>)
    /\ areq = [r \in AuthSlots |-> NoRequest]
    /\ export = NoExport
    /\ compiled = NoFilter
    /\ embedded = Nothing
    /\ translated = Nothing
    /\ vreq = Nothing
    /\ tsel = Nothing
    /\ chunk = Nothing
    /\ stats = Nothing
    /\ shard = Nothing
    /\ legacy = Nothing

ValidateNext ==
    \/ validate_parameters
    \/ SessionGet

SpecValidate == ValidateInit /\ [][ValidateNext]_vars

\* the name is a facet of the flavour: one of the flavour's names when the
\* request translates, one of the canonical names when it does not
IsFacetOf(flavour, translate, name) ==
    \E i \in 1..Len(forward_lookup(flavour)) :
        name = Str(forward_lookup(flavour)[i][IF translate THEN 2 ELSE 1])

\* the name is one of the reserved search parameters
IsReserved(name) ==
    name \in {Str("time_select"), Str("bbox_select"), Str("stac_dynamic"),
              Str("file"), Str("uri")}

\* the request carries a parameter that is neither
CarriesUnknown ==
    \E i \in 1..Len(vreq.query) :
        LET name == Replace(Lower(vreq.query[i]), <<"_not_">>, <<>>)
        IN  /\ ~IsFacetOf(vreq.flavour, vreq.translate, name)
            /\ ~IsReserved(name)

\* C22: a request carrying a parameter whose name, lower-cased and without
\* "_not_", is neither a facet of the flavour under the translate setting
\* nor a reserved parameter, is answered with 422 and no request has been
\* sent to the backend.
C22_UnknownParameterGives422 ==
    (vreq.kind # "none" /\ CarriesUnknown) =>
        /\ vreq.kind = "rejected"
        /\ vreq.status = 422
        /\ vreq.sent = 0

\* a cmip6 request that translates and names the canonical facet variable
\* was answered with 422
C22_Witness ==
    /\ vreq.kind = "rejected"
    /\ vreq.flavour = "cmip6"
    /\ vreq.translate
    /\ vreq.query = << <<"variable">> >>
    /\ vreq.status = 422
    /\ vreq.sent = 0

(***************************************************************************)
(* Part XI: the time filter of a search and the records it selects.  A     *)
(* record's interval from one day to another covers both days.             *)
(***************************************************************************)
tsOthers == <<udVars, corpus, stream, wkVars, ldVars, auVars, inVars, fqVars, esVars, trVars, vrVars,
    ckVars,
    sqVars,
    shVars,
    lgVars>>

\* the texts of the requests, before and after "to"
StartTexts == {<<>>, <<2000>>, <<2000, 6>>, <<2013>>}
EndTexts == {<<>>, <<2012>>, <<2012, 2>>, <<1999>>}

\* the intervals of the records of the index
TimeRecords ==
    { [lo |-> <<2000, 1, 1, 0, 0, 0>>, hi |-> <<2012, 12, 31, 23, 59, 59>>],
      [lo |-> <<2010, 1, 1, 0, 0, 0>>, hi |-> <<2020, 12, 31, 23, 59, 59>>],
      [lo |-> <<1990, 1, 1, 0, 0, 0>>, hi |-> <<2030, 12, 31, 23, 59, 59>>] }

\* Solr.__init__: self.time = adjust_time_string(time, time_select)
AdjustTime ==
    /\ tsel = Nothing
    /\ chunk = Nothing
    /\ stats = Nothing
    /\ shard = Nothing
    /\ legacy = Nothing
    /\ \E start \in StartTexts, end \in EndTexts,
          time_select \in {"strict", "flexible", "file"} :
          tsel' = [kind |-> "filter",
                   time |-> [start |-> start, end |-> end],
                   time_select |-> time_select,
                   fq |-> adjust_time_string([start |-> start, end |-> end],
                                             time_select),
                   record |-> [lo |-> left_default, hi |-> left_default],
                   hit |-> FALSE]
    /\ UNCHANGED tsOthers

\* the backend applies the filter to a record
TimeSearch ==
    /\ tsel.kind = "filter"
    /\ \E record \in TimeRecords :
          tsel' = [tsel EXCEPT !.kind = "searched", !.record = record,
                               !.hit = RangeMatches(record, tsel.fq)]
    /\ UNCHANGED tsOthers

TimeInit ==
    /\ solr = InitIndex
    /\ mongo = {}
    /\ req = [s \in Slots |-> Idle]
    /\ nops = 0
    /\ nfail = 0
    /\ log = {}
    /\ last = Nothing
    /\ history = <<>>
    /\ corpus = [n |-> 0, kind |-> "same"]
    /\ stream = [pc |-> "none"]
    /\ cache = [u \in Uuids |-> Nothing]
    /\ queue = [msgs |-> <<>>, sent |-> 0]
    /\ worker = [w \in Workers |-> Consuming]
    /\ load = NoLoad
    /\ bus = <<>>
    /\ served = {}
    /\ auth = NoAuth(<<>>)
    /\ areq = [r \in AuthSlots |-> NoRequest]
    /\ export = NoExport
    /\ compiled = NoFilter
    /\ embedded = Nothing
    /\ translated = Nothing
    /\ vreq = Nothing
    /\ tsel = Nothing
    /\ chunk = Nothing
    /\ stats = Nothing
    /\ shard = Nothing
    /\ legacy = Nothing

TimeNext ==
    \/ AdjustTime
    \/ TimeSearch

SpecTime == TimeInit /\ [][TimeNext]_vars

\* the query "2000 to 2012" was applied to a record from lo to hi
Searched2000To2012(lo, hi) ==
    /\ tsel.kind = "searched"
    /\ tsel.time = [start |-> <<2000>>, end |-> <<2012>>]
    /\ tsel.record = [lo |-> lo, hi |-> hi]

\* C24, as stated: the record [2000-01-01, 2012-12-31] is missed by the
\* query "2000 to 2012" with strict and matched with flexible and file.
C24_StrictMissesEqualInterval ==
    Searched2000To2012(<<2000, 1, 1, 0, 0, 0>>, <<2012, 12, 31, 23, 59, 59>>)
        => (tsel.hit <=> tsel.time_select # "strict")

\* C24, as the code has it: the record [2000-01-01, 2012-12-31] is matched
\* by the query "2000 to 2012" with each of strict, flexible and file; a
\* record [2010-01-01, 2020-12-31], which reaches beyond the query, is
\* matched with flexible only.
C24_EqualIntervalMatchedByAll ==
    /\ Searched2000To2012(<<2000, 1, 1, 0, 0, 0>>,
                          <<2012, 12, 31, 23, 59, 59>>) => tsel.hit
    /\ Searched2000To2012(<<2010, 1, 1, 0, 0, 0>>,
                          <<2020, 12, 31, 23, 59, 59>>)
          => (tsel.hit <=> tsel.time_select = "flexible")

\* the record [2000-01-01, 2012-12-31] was matched by "2000 to 2012" with
\* strict, the filter being Within [2000-01-01T00:00:00 TO
\* 2012-12-31T23:59:59]
C24_Witness ==
    /\ Searched2000To2012(<<2000, 1, 1, 0, 0, 0>>,
                          <<2012, 12, 31, 23, 59, 59>>)
    /\ tsel.time_select = "strict"
    /\ tsel.fq = [op |-> "Within", start |-> <<2000, 1, 1, 0, 0, 0>>,
                  end |-> <<2012, 12, 31, 23, 59, 59>>]
    /\ tsel.hit

(***************************************************************************)
(* Part XII: get_data_chunk for a two-dimensional chunked array.  The      *)
(* element at <<i, j>> of the array holds the value ToString(10 * i + j).  *)
(***************************************************************************)
ckOthers == <<udVars, corpus, stream, wkVars, ldVars, auVars, inVars, fqVars, esVars, trVars, vrVars, tsVars,
    sqVars,
    shVars,
    lgVars>>

\* the declared chunk shape of the arrays
out_shape == <<2, 2>>

\* what the memory of a fresh buffer may hold
Uninitialized == {"fill", "stale", "junk"}

\* np.empty_like(chunk_data, shape=out_shape): a buffer of that shape; its
\* contents are not initialized
empty_like(shape) ==
    [(0..(shape[1] - 1)) \X (0..(shape[2] - 1)) -> Uninitialized]

\* da.blocks[ikeys]: the block of the array at the chunk indices ikeys
blocks(da_shape, ikeys) ==
    LET lo == [a \in 1..2 |-> ikeys[a] * out_shape[a]]
        shape == [a \in 1..2 |->
                     IF da_shape[a] - lo[a] < out_shape[a]
                     THEN da_shape[a] - lo[a] ELSE out_shape[a]]
    IN  [shape |-> shape,
         data |-> [p \in (0..(shape[1] - 1)) \X (0..(shape[2] - 1)) |->
                      ToString(10 * (lo[1] + p[1]) + lo[2] + p[2])]]

\* new_chunk[write_slice] = chunk_data
write_slice(new_chunk, chunk_data) ==
    [p \in DOMAIN new_chunk |->
        IF p \in DOMAIN chunk_data.data THEN chunk_data.data[p]
        ELSE new_chunk[p]]

\* get_data_chunk: the block, put into a fresh buffer of out_shape when its
\* shape differs
get_data_chunk ==
    /\ chunk = Nothing
    /\ stats = Nothing
    /\ shard = Nothing
    /\ legacy = Nothing
    /\ \E n1 \in 1..MaxExtent, n2 \in 1..MaxExtent :
       \E b1 \in 0..((n1 - 1) \div out_shape[1]),
          b2 \in 0..((n2 - 1) \div out_shape[2]) :
       \E chunk_data \in {blocks(<<n1, n2>>, <<b1, b2>>)} :
          IF chunk_data.shape # out_shape
          THEN \E new_chunk \in empty_like(out_shape) :
                  chunk' = [kind |-> "chunk", da_shape |-> <<n1, n2>>,
                            ikeys |-> <<b1, b2>>, chunk_data |-> chunk_data,
                            out |-> write_slice(new_chunk, chunk_data)]
          ELSE chunk' = [kind |-> "chunk", da_shape |-> <<n1, n2>>,
                         ikeys |-> <<b1, b2>>, chunk_data |-> chunk_data,
                         out |-> chunk_data.data]
    /\ UNCHANGED ckOthers

ChunkInit ==
    /\ solr = InitIndex
    /\ mongo = {}
    /\ req = [s \in Slots |-> Idle]
    /\ nops = 0
    /\ nfail = 0
    /\ log = {}
    /\ last = Nothing
    /\ history = <<>>
    /\ corpus = [n |-> 0, kind |-> "same"]
    /\ stream = [pc |-> "none"]
    /\ cache = [u \in Uuids |-> Nothing]
    /\ queue = [msgs |-> <<>>, sent |-> 0]
    /\ worker = [w \in Workers |-> Consuming]
    /\ load = NoLoad
    /\ bus = <<>>
    /\ served = {}
    /\ auth = NoAuth(<<>>)
    /\ areq = [r \in AuthSlots |-> NoRequest]
    /\ export = NoExport
    /\ compiled = NoFilter
    /\ embedded = Nothing
    /\ translated = Nothing
    /\ vreq = Nothing
    /\ tsel = Nothing
    /\ chunk = Nothing
    /\ stats = Nothing
    /\ shard = Nothing
    /\ legacy = Nothing

ChunkNext == get_data_chunk

SpecChunk == ChunkInit /\ [][ChunkNext]_vars

\* the returned buffer has the declared shape and holds the data of the
\* block where the block has data
PaddedAroundData ==
    /\ DOMAIN chunk.out = (0..(out_shape[1] - 1)) \X (0..(out_shape[2] - 1))
    /\ \A p \in DOMAIN chunk.chunk_data.data :
          chunk.out[p] = chunk.chunk_data.data[p]

\* C25: for an incomplete edge chunk the returned buffer has the declared
\* chunk shape, holds the data unchanged in the slice of the data's shape
\* and the fill value at every other position.
C25_PaddedWithFillValue ==
    (chunk.kind = "chunk" /\ chunk.chunk_data.shape # out_shape) =>
        /\ PaddedAroundData
        /\ \A p \in DOMAIN chunk.out :
              p \notin DOMAIN chunk.chunk_data.data => chunk.out[p] = "fill"

(***************************************************************************)
(* Part XIII: a route runs a search, calls store_results, which schedules  *)
(* a task on the event loop, and answers.  The tasks run on their own.     *)
(***************************************************************************)
sqOthers == <<udVars, corpus, stream, wkVars, ldVars, auVars, inVars, fqVars, esVars, trVars, vrVars, tsVars, ckVars,
    shVars,
    lgVars>>

\* what the searches find: the number of results and the status
SearchOutcomes ==
    { [num_results |-> 0, status |-> 200], [num_results |-> 1, status |-> 200],
      [num_results |-> 2, status |-> 200], [num_results |-> 0, status |-> 400] }

\* the route has run its search
StatSearch ==
    /\ stats.pc = "idle"
    /\ stats.n < MaxSearches
    /\ \E search \in SearchOutcomes :
          stats' = [stats EXCEPT !.pc = "searched", !.n = @ + 1,
                                 !.search = search]
    /\ UNCHANGED sqOthers

\* ensure_future, wrapper: the coroutine of store_results is scheduled and
\* the task returned at once
ensure_future ==
    /\ stats.pc = "searched"
    /\ stats' = [stats EXCEPT
          !.pc = "called",
          !.tasks = @ \cup {[id |-> stats.n, search |-> stats.search]}]
    /\ UNCHANGED sqOthers

\* the route answers with what the search found
Respond ==
    /\ stats.pc = "called"
    /\ stats' = [stats EXCEPT
          !.pc = "idle",
          !.responses = Append(@, stats.search)]
    /\ UNCHANGED sqOthers

\* store_results, run by the event loop: nothing for no results, otherwise
\* insert_one
store_results ==
    /\ stats.kind = "stats"
    /\ \E task \in stats.tasks :
          stats' = [stats EXCEPT
              !.tasks = @ \ {task},
              !.search_queries =
                  IF skip_store(task.search.num_results) THEN @
                  ELSE @ \cup {task.id}]
    /\ UNCHANGED sqOthers

\* store_results, run by the event loop: insert_one raises, which is logged
store_results_raises ==
    /\ stats.kind = "stats"
    /\ \E task \in stats.tasks :
          /\ ~skip_store(task.search.num_results)
          /\ stats' = [stats EXCEPT !.tasks = @ \ {task},
                                    !.warnings = @ \cup {task.id}]
    /\ UNCHANGED sqOthers

StatsInit ==
    /\ solr = InitIndex
    /\ mongo = {}
    /\ req = [s \in Slots |-> Idle]
    /\ nops = 0
    /\ nfail = 0
    /\ log = {}
    /\ last = Nothing
    /\ history = <<>>
    /\ corpus = [n |-> 0, kind |-> "same"]
    /\ stream = [pc |-> "none"]
    /\ cache = [u \in Uuids |-> Nothing]
    /\ queue = [msgs |-> <<>>, sent |-> 0]
    /\ worker = [w \in Workers |-> Consuming]
    /\ load = NoLoad
    /\ bus = <<>>
    /\ served = {}
    /\ auth = NoAuth(<<>>)
    /\ areq = [r \in AuthSlots |-> NoRequest]
    /\ export = NoExport
    /\ compiled = NoFilter
    /\ embedded = Nothing
    /\ translated = Nothing
    /\ vreq = Nothing
    /\ tsel = Nothing
    /\ chunk = Nothing
    /\ stats = NoStats
    /\ shard = Nothing
    /\ legacy = Nothing

StatsNext ==
    \/ StatSearch
    \/ ensure_future
    \/ Respond
    \/ store_results
    \/ store_results_raises

\* the event loop runs every task it has scheduled
SpecStats ==
    /\ StatsInit
    /\ [][StatsNext]_vars
    /\ WF_vars(store_results \/ store_results_raises)

\* store_results was called for search i, a successful search with the
\* given numbers of results
Called(i, nums) ==
    /\ stats.pc = "called"
    /\ stats.n = i
    /\ stats.search.status = 200
    /\ stats.search.num_results \in nums

\* C26, as stated: after every successful search, one without results
\* included, a record of it is eventually written to search_queries.
C26_EverySearchRecorded ==
    \A i \in 1..MaxSearches :
        Called(i, {0, 1, 2}) ~> (i \in stats.search_queries)

\* C26, as the code has it: after every successful search with at least one
\* result its record is eventually written to search_queries, or the
\* failure of the write is logged; a search without results is never
\* recorded; the route can answer while the task is pending, and every
\* response is what the search found, whatever became of the write.
C26_SearchWithResultsRecorded ==
    /\ \A i \in 1..MaxSearches :
          Called(i, {1, 2}) ~>
              (i \in stats.search_queries \/ i \in stats.warnings)
    /\ [](stats.kind = "stats" =>
            /\ stats.pc = "called" => ENABLED Respond
            /\ \A task \in stats.tasks :
                  task.id \notin stats.search_queries \cup stats.warnings)
    /\ [][/\ stats'.search_queries \ stats.search_queries
                \subseteq {task.id : task \in
                    {t \in stats.tasks : t.search.num_results > 0}}
          /\ (stats'.responses # stats.responses =>
                stats'.responses = Append(stats.responses, stats.search))
          /\ (stats'.tasks # stats.tasks /\ stats.pc' = stats.pc =>
                stats'.responses = stats.responses)]_vars

\* the first search found a result and was answered while its task was
\* still pending
C26_Witness ==
    /\ stats.kind = "stats"
    /\ Len(stats.responses) >= 1
    /\ stats.responses[1].num_results > 0
    /\ \E task \in stats.tasks : task.id = 1
    /\ 1 \notin stats.search_queries \cup stats.warnings

(***************************************************************************)
(* Part XIV: user-data requests of Solr objects built with either value of *)
(* multi_version.  A core is the set of the files of its documents.        *)
(***************************************************************************)
shOthers == <<udVars, corpus, stream, wkVars, ldVars, auVars, inVars, fqVars, esVars, trVars, vrVars, tsVars, ckVars, sqVars,
    lgVars>>

\* the files of the requests
ShardFiles == {FileA, FileB, FileC}

\* add_user_metadata of one record: _is_query_duplicate reads lookup_core,
\* _ingest_user_metadata posts to _post_url when no duplicate is found
ShardAdd ==
    /\ shard.kind = "cores"
    /\ shard.n < MaxWrites
    /\ \E multi_version \in BOOLEAN, file \in ShardFiles :
          shard' = [shard EXCEPT
              !.n = @ + 1,
              !.op = IF file \in shard.cores[lookup_core]
                     THEN "duplicate" ELSE "add",
              !.multi_version = multi_version,
              !.core = IF file \in shard.cores[lookup_core]
                       THEN "none" ELSE post_core(multi_version),
              !.cores = IF file \in shard.cores[lookup_core] THEN @
                        ELSE [@ EXCEPT ![post_core(multi_version)] =
                                         @ \cup {file}]]
    /\ UNCHANGED shOthers

\* delete_user_metadata: _delete_from_solr posts the delete to _post_url
ShardDelete ==
    /\ shard.kind = "cores"
    /\ shard.n < MaxWrites
    /\ \E multi_version \in BOOLEAN, file \in ShardFiles :
          shard' = [shard EXCEPT
              !.n = @ + 1,
              !.op = "delete",
              !.multi_version = multi_version,
              !.core = post_core(multi_version),
              !.cores = [@ EXCEPT ![post_core(multi_version)] = @ \ {file}]]
    /\ UNCHANGED shOthers

ShardInit ==
    /\ solr = InitIndex
    /\ mongo = {}
    /\ req = [s \in Slots |-> Idle]
    /\ nops = 0
    /\ nfail = 0
    /\ log = {}
    /\ last = Nothing
    /\ history = <<>>
    /\ corpus = [n |-> 0, kind |-> "same"]
    /\ stream = [pc |-> "none"]
    /\ cache = [u \in Uuids |-> Nothing]
    /\ queue = [msgs |-> <<>>, sent |-> 0]
    /\ worker = [w \in Workers |-> Consuming]
    /\ load = NoLoad
    /\ bus = <<>>
    /\ served = {}
    /\ auth = NoAuth(<<>>)
    /\ areq = [r \in AuthSlots |-> NoRequest]
    /\ export = NoExport
    /\ compiled = NoFilter
    /\ embedded = Nothing
    /\ translated = Nothing
    /\ vreq = Nothing
    /\ tsel = Nothing
    /\ chunk = Nothing
    /\ stats = Nothing
    /\ shard = NoWrites
    /\ legacy = Nothing

ShardNext ==
    \/ ShardAdd
    \/ ShardDelete

SpecShard == ShardInit /\ [][ShardNext]_vars

\* C27: an add or delete of user data writes to the latest core, the core
\* the duplicate lookup reads, whatever multi_version the object was built
\* with; the other core stays as it was.
C27_WritesToLatestCore ==
    shard.kind = "cores" =>
        /\ shard.op \in {"add", "delete"} =>
              (shard.core = "latest" /\ shard.core = lookup_core)
        /\ shard.cores["files"] = {}

(***************************************************************************)
(* Part III, continued: the steps of the stored status of a uuid.          *)
(***************************************************************************)
\* the stored status of u, "absent" when the cache holds no entry of u
StatusOf(c, u) ==
    IF c[u] = Nothing THEN "absent"
    ELSE CASE c[u].value.status = OK -> "OK"
           [] c[u].value.status = FAILED -> "FAILED"
           [] c[u].value.status = WAITING -> "WAITING"
           [] OTHER -> "IN_PROGRESS"

\* the steps of a status the claim allows; an expiry takes any status to
\* absent
StatusSteps ==
    { <<"absent", "WAITING">>, <<"WAITING", "IN_PROGRESS">>,
      <<"FAILED", "IN_PROGRESS">>, <<"IN_PROGRESS", "OK">>,
      <<"IN_PROGRESS", "FAILED">> }
    \cup { <<s, "absent">> : s \in {"WAITING", "IN_PROGRESS", "OK", "FAILED"} }

\* C28: whatever the interleaving of the workers, the stored status of a
\* uuid changes only along absent -> WAITING, WAITING -> IN_PROGRESS,
\* FAILED -> IN_PROGRESS, IN_PROGRESS -> OK, IN_PROGRESS -> FAILED, or
\* expires; a status OK is never overwritten with another status.
C28_StatusStepsOnly ==
    [][\A u \in Uuids :
          StatusOf(cache, u) # StatusOf(cache', u) =>
              <<StatusOf(cache, u), StatusOf(cache', u)>> \in StatusSteps]_vars

\* C29: the handling of a message never stops the worker that took it: a
\* body that cannot be decoded, a chunk request for a uuid that is unknown,
\* expired or not OK, a dataset that cannot be read; the worker consumes
\* again afterwards.
C29_FailingMessageKeepsWorker ==
    [][\A w \in Workers :
          (worker[w].pc \in {"consuming", "try"} /\ worker'[w] # worker[w])
              => worker'[w].pc # "dead"]_vars

(***************************************************************************)
(* Part XV: the stream of the legacy search, SolrSearch.init_stream and    *)
(* SolrSearch.stream_response, over an unchanging corpus.  The backend     *)
(* answers start=s, rows=r with the documents at the offsets s .. s+r-1    *)
(* of its result list, counted from 0.                                     *)
(***************************************************************************)
lgOthers == <<udVars, corpus, stream, wkVars, ldVars, auVars, inVars, fqVars, esVars, trVars, vrVars, tsVars, ckVars, sqVars, shVars>>

\* SolrSearch.batch_size
legacy_batch_size == 150

\* the sizes of the corpora: around each multiple of the batch size
LegacySizes ==
    { n \in { legacy_batch_size * k + d :
                 k \in 0..MaxLegacyPages, d \in -4..4 } : n >= 1 }

\* the uniq keys of the documents the backend returns for start and rows
OffsetPage(total_count, start, rows) ==
    LET stop == IF start + rows < total_count THEN start + rows
                ELSE total_count
    IN  [k \in 1..(IF stop > start THEN stop - start ELSE 0) |->
            DocFile(start + k)]

\* tuple(range(batch_size + 1, total_count, batch_size))
iteritems(total_count) ==
    LET count == IF total_count <= legacy_batch_size + 1 THEN 0
                 ELSE (total_count - legacy_batch_size - 2)
                          \div legacy_batch_size + 1
    IN  [j \in 1..count |-> legacy_batch_size + 1 + legacy_batch_size * (j - 1)]

\* init_stream: the first page, start = 0 and rows = batch_size
legacy_init_stream ==
    /\ legacy = Nothing
    /\ \E total_count \in LegacySizes :
          legacy' = [kind |-> "stream", pc |-> "first",
                     total_count |-> total_count,
                     search_results |->
                         OffsetPage(total_count, 0, legacy_batch_size),
                     i |-> 0, emitted |-> <<>>]
    /\ UNCHANGED lgOthers

\* stream_response: for content in search.search_results: yield
legacy_first ==
    /\ legacy.kind = "stream"
    /\ legacy.pc = "first"
    /\ legacy' = [legacy EXCEPT !.pc = "pages",
                                !.emitted = legacy.search_results]
    /\ UNCHANGED lgOthers

\* stream_response: for i in iteritems: one page of _make_iterable
legacy_page ==
    /\ legacy.kind = "stream"
    /\ legacy.pc = "pages"
    /\ legacy.i < Len(iteritems(legacy.total_count))
    /\ legacy' = [legacy EXCEPT
          !.i = @ + 1,
          !.emitted = @ \o OffsetPage(legacy.total_count,
                                      iteritems(legacy.total_count)[legacy.i + 1],
                                      legacy_batch_size)]
    /\ UNCHANGED lgOthers

\* stream_response: the request after the loop, start = iteritems[-1] and
\* rows = total_count - iteritems[-1]
legacy_last ==
    /\ legacy.kind = "stream"
    /\ legacy.pc = "pages"
    /\ legacy.i = Len(iteritems(legacy.total_count))
    /\ \E items \in {iteritems(legacy.total_count)} :
          /\ items # <<>>
          /\ items[Len(items)] < legacy.total_count
          /\ legacy.total_count > legacy_batch_size
          /\ legacy' = [legacy EXCEPT
                !.pc = "done",
                !.emitted = @ \o OffsetPage(legacy.total_count,
                                items[Len(items)],
                                legacy.total_count - items[Len(items)])]
    /\ UNCHANGED lgOthers

\* stream_response: the generator ends without the request after the loop
legacy_end ==
    /\ legacy.kind = "stream"
    /\ legacy.pc = "pages"
    /\ legacy.i = Len(iteritems(legacy.total_count))
    /\ \E items \in {iteritems(legacy.total_count)} :
          ~(/\ items # <<>>
            /\ items[Len(items)] < legacy.total_count
            /\ legacy.total_count > legacy_batch_size)
    /\ legacy' = [legacy EXCEPT !.pc = "done"]
    /\ UNCHANGED lgOthers

LegacyInit ==
    /\ solr = InitIndex
    /\ mongo = {}
    /\ req = [s \in Slots |-> Idle]
    /\ nops = 0
    /\ nfail = 0
    /\ log = {}
    /\ last = Nothing
    /\ history = <<>>
    /\ corpus = [n |-> 0, kind |-> "same"]
    /\ stream = [pc |-> "none"]
    /\ cache = [u \in Uuids |-> Nothing]
    /\ queue = [msgs |-> <<>>, sent |-> 0]
    /\ worker = [w \in Workers |-> Consuming]
    /\ load = NoLoad
    /\ bus = <<>>
    /\ served = {}
    /\ auth = NoAuth(<<>>)
    /\ areq = [r \in AuthSlots |-> NoRequest]
    /\ export = NoExport
    /\ compiled = NoFilter
    /\ embedded = Nothing
    /\ translated = Nothing
    /\ vreq = Nothing
    /\ tsel = Nothing
    /\ chunk = Nothing
    /\ stats = Nothing
    /\ shard = Nothing
    /\ legacy = Nothing

LegacyNext ==
    \/ legacy_init_stream
    \/ legacy_first
    \/ legacy_page
    \/ legacy_last
    \/ legacy_end

SpecLegacy == LegacyInit /\ [][LegacyNext]_vars

\* C30: when the stream of the legacy search has ended it has emitted each
\* of the total_count matching records exactly once.
C30_LegacyEachRecordOnce ==
    (legacy.kind = "stream" /\ legacy.pc = "done") =>
        /\ Len(legacy.emitted) = legacy.total_count
        /\ \A n \in 1..legacy.total_count :
              \E k \in 1..Len(legacy.emitted) : legacy.emitted[k] = DocFile(n)

====
